---------------------------- MODULE Spec2Model ----------------------------
(***************************************************************************)
(* Model of the data pipeline of the real-estate market dashboard:         *)
(*   - services/csvService.ts  parseCSV      (src/unnamed/part_002:125-317) *)
(*   - App.tsx                 filter + sort (src/unnamed/part_002:330-543) *)
(*   - components/ExportDashboard.tsx stats  (src/unnamed/part_000:13-148)  *)
(*   - components/Sidebar.tsx  filter handlers (src/unnamed/part_000:1167+) *)
(*                                                                         *)
(* Representation of JavaScript values                                     *)
(*   string   a tuple of one-character strings, <<"6","7",".","0","1">>;   *)
(*            null and '' are both << >> (every reader of getValue's       *)
(*            result treats them alike: `|| default`, `!id`, parseFloat).  *)
(*   number   an integer in fixed point.  Coordinates are in 1/10000       *)
(*            degree, every other decimal quantity in 1/100, unit counts   *)
(*            in units.  NaN is the record [ok |-> FALSE, val |-> 0].      *)
(***************************************************************************)
EXTENDS Integers, Sequences, FiniteSets, TLC

VARIABLES
    file,            \* the CSV file in the upload input: e.target.files[0]
    projects,        \* App: useState<Project[]>            (part_002:341)
    fileName,        \* App: useState<string>               (part_002:342)
    loading,         \* App: useState(false)                (part_002:343)
    searchState,     \* App: useState<SearchState>          (part_002:355)
    showUploadModal, \* App: useState(true)                 (part_002:372)
    nearbyPlaces,    \* App: useState<NearbyPlace[]>([])    (part_002:352)
    placesData,      \* ResultsPanel: useState({mall, hospital, school})
    isLoading,       \* ResultsPanel: useState(false)
    errorMsg,        \* ResultsPanel: useState<string | null>(null)
    lastFetchRef,    \* ResultsPanel: useRef(null)
    effects,         \* ResultsPanel: the runs of the fetch effect that can still act
    activeProject,   \* App: useState<Project | null>(null)     (part_002:349)
    selectedProject, \* App: useState<Project | null>(null)     (part_002:350)
    activePlace,     \* App: useState<NearbyPlace | null>(null) (part_002:353)
    showExportModal, \* App: useState(false)                    (part_002:373)
    lastOp           \* name of the handler that ran last (history variable)

\* the state the fetch effect of ResultsPanel reads and writes
panelVars == <<nearbyPlaces, placesData, isLoading, errorMsg, lastFetchRef, effects>>

\* what is selected, and whether the export dashboard is open
viewVars == <<activeProject, selectedProject, activePlace, showExportModal>>

vars == <<file, projects, fileName, loading, searchState, showUploadModal,
          nearbyPlaces, placesData, isLoading, errorMsg, lastFetchRef, effects,
          activeProject, selectedProject, activePlace, showExportModal,
          lastOp>>

-----------------------------------------------------------------------------
(* Bounds of the model *)

\* rows of one imported sheet
MaxRows == 3

-----------------------------------------------------------------------------
(* Strings *)

Digits == {"0", "1", "2", "3", "4", "5", "6", "7", "8", "9"}

DigitVal(c) ==
    CASE c = "0" -> 0 [] c = "1" -> 1 [] c = "2" -> 2 [] c = "3" -> 3
      [] c = "4" -> 4 [] c = "5" -> 5 [] c = "6" -> 6 [] c = "7" -> 7
      [] c = "8" -> 8 [] c = "9" -> 9

DigitChar(n) ==
    CASE n = 0 -> "0" [] n = 1 -> "1" [] n = 2 -> "2" [] n = 3 -> "3"
      [] n = 4 -> "4" [] n = 5 -> "5" [] n = 6 -> "6" [] n = 7 -> "7"
      [] n = 8 -> "8" [] n = 9 -> "9"

\* UTF-16 code unit of the characters the model's strings are made of
CharCode(c) ==
    CASE c = " " -> 32 [] c = "(" -> 40 [] c = ")" -> 41 [] c = "-" -> 45
      [] c = "." -> 46 [] c \in Digits -> 48 + DigitVal(c)
      [] c = "A" -> 65 [] c = "B" -> 66 [] c = "C" -> 67 [] c = "H" -> 72
      [] c = "M" -> 77 [] c = "P" -> 80 [] c = "T" -> 84 [] c = "X" -> 88
      [] c = "n" -> 110 [] c = "x" -> 120
      [] c = "ZWSP" -> 8203        \* U+200B, one code unit

\* the TLC string spelt by a tuple of characters (for reading results)
RECURSIVE Str(_)
Str(s) == IF s = << >> THEN "" ELSE Head(s) \o Str(Tail(s))

\* a < b in code-unit order: Array.prototype.sort() without comparator
RECURSIVE StrLess(_, _)
StrLess(a, b) ==
    IF b = << >> THEN FALSE
    ELSE IF a = << >> THEN TRUE
    ELSE IF Head(a) # Head(b) THEN CharCode(Head(a)) < CharCode(Head(b))
    ELSE StrLess(Tail(a), Tail(b))

\* String.prototype.trim
RECURSIVE TrimLeft(_)
TrimLeft(s) == IF s # << >> /\ Head(s) = " " THEN TrimLeft(Tail(s)) ELSE s

RECURSIVE TrimRight(_)
TrimRight(s) ==
    IF s # << >> /\ s[Len(s)] = " " THEN TrimRight(SubSeq(s, 1, Len(s) - 1)) ELSE s

Trim(s) == TrimRight(TrimLeft(s))

\* .replace(/[\u200B-\u200D\uFEFF]/g, ''): ZWSP stands for the zero-width characters
StripZeroWidth(s) == SelectSeq(s, LAMBDA c : c # "ZWSP")

-----------------------------------------------------------------------------
(* Numbers *)

NaN == [ok |-> FALSE, val |-> 0]

Num(v) == [ok |-> TRUE, val |-> v]

RECURSIVE Pow10(_)
Pow10(k) == IF k = 0 THEN 1 ELSE 10 * Pow10(k - 1)

Abs(n) == IF n < 0 THEN -n ELSE n

\* n/d rounded to the nearest integer, halves away from zero (d > 0)
RoundDiv(n, d) ==
    LET q == Abs(n) \div d
        r == Abs(n) % d
        m == IF 2 * r >= d THEN q + 1 ELSE q
    IN  IF n >= 0 THEN m ELSE -m

\* number of digits of s from position i on
RECURSIVE DigitRun(_, _)
DigitRun(s, i) ==
    IF i <= Len(s) /\ s[i] \in Digits THEN 1 + DigitRun(s, i + 1) ELSE 0

\* value of the n digits of s that start at position i
RECURSIVE DigitsValue(_, _, _)
DigitsValue(s, i, n) ==
    IF n = 0 THEN 0 ELSE 10 * DigitsValue(s, i, n - 1) + DigitVal(s[i + n - 1])

\* parseFloat(s), in units of 10^-d: leading blanks, an optional sign, the
\* longest prefix digits[.digits]; NaN when that prefix holds no digit.
\* Fraction digits beyond d are cut (the inputs hold none).
\* The value of ni integer digits from b on and nf fraction digits:
ParseDigits(t, neg, b, ni, nf, d) ==
    LET used == IF nf < d THEN nf ELSE d
        mag  == DigitsValue(t, b, ni) * Pow10(d)
                  + DigitsValue(t, b + ni + 1, used) * Pow10(d - used)
    IN  IF ni = 0 /\ nf = 0 THEN NaN ELSE Num(IF neg THEN -mag ELSE mag)

\* the fraction digits after the ni integer digits from b on
ParseFrom(t, b, ni, d) ==
    ParseDigits(t, t # << >> /\ t[1] = "-", b, ni,
                IF b + ni <= Len(t) /\ t[b + ni] = "." THEN DigitRun(t, b + ni + 1)
                ELSE 0,
                d)

\* the integer digits from b on, after the sign
ParseTrimmed(t, b, d) == ParseFrom(t, b, DigitRun(t, b), d)

\* parseFloat(s)
ParseFloat(s, d) ==
    ParseTrimmed(TrimLeft(s),
                 IF TrimLeft(s) # << >> /\ TrimLeft(s)[1] \in {"-", "+"} THEN 2 ELSE 1,
                 d)

\* parseFloat(x) || 0
OrZero(r) == IF r.ok THEN r.val ELSE 0

\* decimal digits of n >= 0, at least `width` of them
RECURSIVE NatChars(_, _)
NatChars(n, width) ==
    IF n < 10 /\ width <= 1 THEN <<DigitChar(n)>>
    ELSE NatChars(n \div 10, width - 1) \o <<DigitChar(n % 10)>>

\* the digits of r / 10^k, with its sign
FixedChars(neg, r, k) ==
    (IF neg THEN <<"-">> ELSE << >>)
       \o (IF k = 0 THEN NatChars(r, 1)
           ELSE NatChars(r \div Pow10(k), 1) \o <<".">> \o NatChars(r % Pow10(k), k))

\* (num/den).toFixed(k), den > 0: rounded to k decimals, halves up in magnitude
ToFixed(num, den, k) ==
    FixedChars(num < 0,
               IF den % Pow10(k) = 0 THEN RoundDiv(Abs(num), den \div Pow10(k))
               ELSE RoundDiv(Abs(num) * Pow10(k), den),
               k)

-----------------------------------------------------------------------------
(* Generic helpers *)

Range(s) == {s[i] : i \in DOMAIN s}

\* Array.prototype.sort(cmp): stable; cmp(a, b) > 0 puts b before a.
\* (The comparators of this program order by a key, so the result is the
\* stable insertion sort.)
ArraySort(s, Cmp(_, _)) ==
    LET Insert(r, x) ==
            LET pos == Cardinality({j \in DOMAIN r : Cmp(r[j], x) <= 0})
            IN  SubSeq(r, 1, pos) \o <<x>> \o SubSeq(r, pos + 1, Len(r))
        R[k \in 0..Len(s)] == IF k = 0 THEN << >> ELSE Insert(R[k - 1], s[k])
    IN  R[Len(s)]

\* Math.min(...xs), Math.max(...xs) of a non-empty array
MinOf(xs) == CHOOSE m \in Range(xs) : \A x \in Range(xs) : m <= x
MaxOf(xs) == CHOOSE m \in Range(xs) : \A x \in Range(xs) : m >= x

RECURSIVE SumSeq(_)
SumSeq(xs) == IF xs = << >> THEN 0 ELSE Head(xs) + SumSeq(Tail(xs))

-----------------------------------------------------------------------------
(* csvService.parseCSV: column lookup *)

\* String.prototype.toLowerCase on the column names and aliases in use
LowerCaseTable ==
    ("ID" :> "id")
      @@ (" Id " :> " id ")
      @@ ("Project ID" :> "project id")
      @@ ("Ref" :> "ref")
      @@ ("Latitude" :> "latitude")
      @@ ("LAT" :> "lat")
      @@ ("Longitude" :> "longitude")
      @@ ("Lon" :> "lon")
      @@ ("Type" :> "type")
      @@ ("Product Type" :> "product type")
      @@ ("Unit Type" :> "unit type")
      @@ ("Total units" :> "total units")
      @@ ("Total Units" :> "total units")
      @@ ("Units" :> "units")
      @@ ("Sold Units" :> "sold units")
      @@ ("Sold" :> "sold")
      @@ ("Avg. Price (Units)" :> "avg. price (units)")
      @@ ("Price" :> "price")
      @@ ("Avg Price" :> "avg price")
      @@ ("Avg. Price" :> "avg. price")
      @@ ("Sale Speed (6 [Thai: months])" :> "sale speed (6 [thai: months])")
      @@ ("Sale Speed 6m" :> "sale speed 6m")
      @@ ("Speed 6m" :> "speed 6m")
      @@ ("Sale Speed (6 Months)" :> "sale speed (6 months)")
      @@ ("Sale Speed" :> "sale speed")
      @@ ("Speed" :> "speed")
      @@ ("Total Sale Speed" :> "total sale speed")
      @@ ("Launch date (YY.MM)" :> "launch date (yy.mm)")
      @@ ("Launch Date" :> "launch date")
      @@ ("Launch" :> "launch")
      @@ ("Area Code" :> "area code")
      @@ ("Code Area" :> "code area")
      @@ ("Code" :> "code")
      @@ ("AREA Code" :> "area code")
      @@ ("Zone" :> "zone")
      @@ ("Location Code" :> "location code")
      @@ ("Zone Code" :> "zone code")
      @@ ("H1.67" :> "h1.67")
      @@ ("H2.67" :> "h2.67")
      @@ ("H2.66" :> "h2.66")
      @@ ("H1.66 (12M)" :> "h1.66 (12m)")

ToLowerCase(k) ==
    IF k \in DOMAIN LowerCaseTable THEN LowerCaseTable[k]
    ELSE k                  \* already lower case: id, lat, lng, lon, project_id

\* String.prototype.trim on the column names in use
TrimKey(k) ==
    CASE k = " Id " -> "Id"
      [] k = " id " -> "id"
      [] OTHER -> k

\* the characters of the column names that look like period columns
KeyChars(k) ==
    CASE k = "H1.67" -> <<"H", "1", ".", "6", "7">>
      [] k = "H2.67" -> <<"H", "2", ".", "6", "7">>
      [] k = "H2.66" -> <<"H", "2", ".", "6", "6">>
      [] k = "H1.66 (12M)" -> <<"H", "1", ".", "6", "6", " ", "(", "1", "2", "M", ")">>
      [] OTHER -> <<"x">>  \* every other column name starts otherwise

\* rowKeys.find(k => k.trim().toLowerCase() === key.toLowerCase())
RECURSIVE FindKey(_, _, _)
FindKey(rowKeys, key, i) ==
    IF i > Len(rowKeys) THEN ""
    ELSE IF TrimKey(ToLowerCase(rowKeys[i])) = ToLowerCase(key) THEN rowKeys[i]
    ELSE FindKey(rowKeys, key, i + 1)

\* the loop of getValue from the i-th alias on ("" is no column name)
RECURSIVE GetValueFrom(_, _, _)
GetValueFrom(row, possibleKeys, i) ==
    IF i > Len(possibleKeys) THEN << >>
    ELSE LET key == possibleKeys[i]
         IN  IF key \in DOMAIN row.val /\ row.val[key] # << >> THEN row.val[key]
             ELSE LET foundKey == FindKey(row.keys, key, 1)
                  IN  IF foundKey # "" /\ row.val[foundKey] # << >>
                      THEN row.val[foundKey]
                      ELSE GetValueFrom(row, possibleKeys, i + 1)

\* const getValue = (row, possibleKeys) => ...
GetValue(row, possibleKeys) == GetValueFrom(row, possibleKeys, 1)

IdKeys == <<"ID", "id", "project_id", "Project ID">>
LatKeys == <<"Latitude", "lat">>
LngKeys == <<"Longitude", "lng", "lon">>
TypeKeys == <<"Type", "Product Type", "Unit Type">>
TotalKeys == <<"Total units", "Total Units", "Units">>
SoldKeys == <<"Sold Units", "Sold">>
PriceKeys == <<"Avg. Price (Units)", "Price", "Avg Price", "Avg. Price">>
Speed6mKeys == <<"Sale Speed (6 [Thai: months])", "Sale Speed 6m", "Speed 6m",
                 "Sale Speed (6 Months)">>
SpeedKeys == <<"Sale Speed", "Speed", "Total Sale Speed">>
LaunchKeys == <<"Launch date (YY.MM)", "Launch Date", "Launch">>
CodeKeys == <<"Area Code", "Code Area", "Code", "AREA Code", "Zone",
              "Location Code", "Zone Code">>

-----------------------------------------------------------------------------
(* csvService.parseCSV: one row -> one SubUnit *)

\* /^H[12]\.\d+/.test(cleanKey)
IsPeriodKey(cleanKey) ==
    LET c == KeyChars(cleanKey)
    IN  Len(c) >= 4 /\ c[1] = "H" /\ c[2] \in {"1", "2"} /\ c[3] = "."
        /\ DigitRun(c, 4) >= 1

\* k.toLowerCase().includes('(12m)')
Includes12m(k) ==
    LET c == KeyChars(k)
    IN  \E i \in 1..(Len(c) - 4) :
            /\ c[i] = "(" /\ c[i + 1] = "1" /\ c[i + 2] = "2"
            /\ c[i + 3] \in {"m", "M"} /\ c[i + 4] = ")"

\* parseKey inside the history sort
ParseKey(k) ==
    IF ~IsPeriodKey(k) THEN [half |-> 0, year |-> 0, is12m |-> FALSE]
    ELSE [half  |-> DigitVal(KeyChars(k)[2]),
          year  |-> DigitsValue(KeyChars(k), 4, DigitRun(KeyChars(k), 4)),
          is12m |-> Includes12m(k)]

\* a comparator that orders by year and half without the (12m) preference
HistoryCmpNo12m(a, b) ==
    IF ParseKey(a).year # ParseKey(b).year THEN ParseKey(b).year - ParseKey(a).year
    ELSE ParseKey(b).half - ParseKey(a).half

\* the three return statements of the comparator, on the parsed keys
CmpParsed(aV, bV) ==
    IF aV.is12m # bV.is12m THEN (IF bV.is12m THEN 1 ELSE -1)
    ELSE IF aV.year # bV.year THEN bV.year - aV.year
    ELSE bV.half - aV.half

\* comparator of Object.keys(history).sort(...)
HistoryCmp(a, b) == CmpParsed(ParseKey(a), ParseKey(b))

\* history[cleanKey] = val, for the columns cols
HistoryOf(r, cols) ==
    [i \in DOMAIN cols |->
        [key |-> TrimKey(cols[i]), val |-> ParseFloat(r.val[cols[i]], 2).val]]

\* the history object of a row: its period columns whose cell parses,
\* in column order, keyed by the trimmed column name
History(r) ==
    HistoryOf(r, SelectSeq(r.keys, LAMBDA key :
                    IsPeriodKey(TrimKey(key)) /\ ParseFloat(r.val[key], 2).ok))

HistoryKeys(h) == [i \in DOMAIN h |-> h[i].key]

\* history[key]
HistoryAt(h, key) == h[CHOOSE i \in DOMAIN h : h[i].key = key].val

\* if (speed6m === 0 && Object.keys(history).length > 0) speed6m = history[hKeys[0]]
Backfilled(speed6m, history) ==
    IF speed6m = 0 /\ Len(history) > 0
    THEN HistoryAt(history, ArraySort(HistoryKeys(history), HistoryCmp)[1])
    ELSE speed6m

\* speed6m after "If speed6m is 0, try to get it from the latest history key"
Speed6mOf(r) ==
    Backfilled(OrZero(ParseFloat(GetValue(r, Speed6mKeys), 2)), History(r))

\* (price < 1000 ? price : price / 1000000).toFixed(2), price in 1/100
PriceFixed2(price) ==
    IF price < 1000 * 100 THEN ToFixed(price, 100, 2)
    ELSE ToFixed(price, 100 * 1000000, 2)

OrDefault(s, default) == IF s = << >> THEN default ELSE s

\* subUnits.push({...})
SubUnit(type, total, sold, price, launchDate, speed, speed6m, history) ==
    [type        |-> type,
     totalUnits  |-> total,
     soldUnits   |-> sold,
     \* perSold, in 1/100 of a percent
     percentSold |-> IF total # 0 THEN RoundDiv(sold * 10000, total) ELSE 0,
     price       |-> price,
     priceStr    |-> IF price > 0 THEN PriceFixed2(price) \o <<" ", "M", "B">>
                     ELSE <<"-">>,
     launchDate  |-> launchDate,
     saleSpeed   |-> ToFixed(speed, 100, 2),
     saleSpeed6m |-> ToFixed(speed6m, 100, 2),
     history     |-> history]

\* the body of rows.forEach((r) => { ... subUnits.push({...}) })
SubUnitOf(r) ==
    SubUnit(StripZeroWidth(Trim(OrDefault(GetValue(r, TypeKeys),
                                          <<"U", "n", "k", "n", "o", "w", "n">>))),
            OrZero(ParseFloat(GetValue(r, TotalKeys), 0)),
            OrZero(ParseFloat(GetValue(r, SoldKeys), 0)),
            OrZero(ParseFloat(GetValue(r, PriceKeys), 2)),
            OrDefault(GetValue(r, LaunchKeys), <<"-">>),
            OrZero(ParseFloat(GetValue(r, SpeedKeys), 2)),
            Speed6mOf(r),
            History(r))

-----------------------------------------------------------------------------
(* csvService.parseCSV: grouping and project construction *)

RowId(row) == GetValue(row, IdKeys)

\* rawData.forEach: the ids in the order groupedData first receives them
RECURSIVE InsertionOrder(_)
InsertionOrder(rawData) ==
    IF rawData = << >> THEN << >>
    ELSE LET init == InsertionOrder(SubSeq(rawData, 1, Len(rawData) - 1))
             id   == RowId(rawData[Len(rawData)])
         IN  IF id = << >> \/ id \in Range(init) THEN init ELSE Append(init, id)

\* a property name that is a canonical array index ("7", "10", not "07")
IsArrayIndex(id) ==
    /\ Len(id) >= 1 /\ Len(id) <= 9
    /\ \A i \in DOMAIN id : id[i] \in Digits
    /\ (Len(id) = 1 \/ id[1] # "0")

\* Object.keys(groupedData): integer-like keys ascending, then the other
\* keys in insertion order
ObjectKeys(inserted) ==
    LET IndexCmp(a, b) == DigitsValue(a, 1, Len(a)) - DigitsValue(b, 1, Len(b))
    IN  ArraySort(SelectSeq(inserted, IsArrayIndex), IndexCmp)
          \o SelectSeq(inserted, LAMBDA id : ~IsArrayIndex(id))

\* a grouping that keeps the first row of every ID only
GroupRowsFirstOnly(rawData, id) ==
    SubSeq(SelectSeq(rawData, LAMBDA row : RowId(row) = id), 1, 1)

\* groupedData[id]
GroupRows(rawData, id) == SelectSeq(rawData, LAMBDA row : RowId(row) = id)

BaseLat(rows) == ParseFloat(OrDefault(GetValue(rows[1], LatKeys), <<"0">>), 4)
BaseLng(rows) == ParseFloat(OrDefault(GetValue(rows[1], LngKeys), <<"0">>), 4)

\* !x of a number: NaN and 0 are both falsy
Falsy(x) == ~x.ok \/ x.val = 0

\* a coordinate check that looks at the longitude only
CoordsRejectedLngOnly(rows) == Falsy(BaseLng(rows))

\* if (!lat || !lng) return;
CoordsRejected(rows) == Falsy(BaseLat(rows)) \/ Falsy(BaseLng(rows))

\* a priceRange with the unit after both prices
PriceRangeUnitTwice(prices) ==
    IF Len(prices) = 0 THEN <<"N", "/", "A">>
    ELSE IF MinOf(prices) = MaxOf(prices)
         THEN PriceFixed2(MinOf(prices)) \o <<" ", "M", "B">>
         ELSE PriceFixed2(MinOf(prices)) \o <<" ", "M", "B", " ", "-", " ">>
                \o PriceFixed2(MaxOf(prices)) \o <<" ", "M", "B">>

\* priceRange
PriceRangeOf(prices) ==
    IF Len(prices) = 0 THEN <<"N", "/", "A">>
    ELSE IF MinOf(prices) = MaxOf(prices)
         THEN PriceFixed2(MinOf(prices)) \o <<" ", "M", "B">>
         ELSE PriceFixed2(MinOf(prices)) \o <<" ", "-", " ">>
                \o PriceFixed2(MaxOf(prices)) \o <<" ", "M", "B">>

\* the object pushed, of the subunits and the speed sums of the group
Project(id, lat, lng, code, subUnits, projSaleSpeed6m, projSaleSpeed) ==
    [projectId   |-> id,
     lat         |-> lat,
     lng         |-> lng,
     code        |-> code,
     subUnits    |-> subUnits,
     totalUnits  |-> SumSeq([i \in DOMAIN subUnits |-> subUnits[i].totalUnits]),
     soldUnits   |-> SumSeq([i \in DOMAIN subUnits |-> subUnits[i].soldUnits]),
     percentSold |-> IF SumSeq([i \in DOMAIN subUnits |-> subUnits[i].totalUnits]) # 0
                     THEN ToFixed(
                            SumSeq([i \in DOMAIN subUnits |-> subUnits[i].soldUnits]) * 100,
                            SumSeq([i \in DOMAIN subUnits |-> subUnits[i].totalUnits]), 1)
                     ELSE ToFixed(0, 1, 1),
     priceRange  |-> PriceRangeOf(
                        SelectSeq([i \in DOMAIN subUnits |-> subUnits[i].price],
                                  LAMBDA price : price > 0)),
     saleSpeed6m |-> ToFixed(projSaleSpeed6m, 100, 2),
     saleSpeed   |-> ToFixed(projSaleSpeed, 100, 2)]

\* processedProjects.push({...}) for one surviving group
ProjectOf(id, rows) ==
    Project(id, BaseLat(rows).val, BaseLng(rows).val,
            OrDefault(GetValue(rows[1], CodeKeys), <<"X", "X">>),
            [i \in DOMAIN rows |-> SubUnitOf(rows[i])],
            SumSeq([i \in DOMAIN rows |-> Speed6mOf(rows[i])]),
            SumSeq([i \in DOMAIN rows |->
                      OrZero(ParseFloat(GetValue(rows[i], SpeedKeys), 2))]))

\* processedProjects, of the ids whose group is kept
ProjectsOf(rawData, kept) ==
    [i \in DOMAIN kept |-> ProjectOf(kept[i], GroupRows(rawData, kept[i]))]

\* complete: (results) => { ... resolve(processedProjects) }
ParseCSV(rawData) ==
    ProjectsOf(rawData,
               SelectSeq(ObjectKeys(InsertionOrder(rawData)),
                         LAMBDA id : ~CoordsRejected(GroupRows(rawData, id))))

-----------------------------------------------------------------------------
(* App: calculateDistance *)

\* floor of the square root, by bisection on lo..hi
RECURSIVE SqrtIn(_, _, _)
SqrtIn(n, lo, hi) ==
    IF lo >= hi THEN lo
    ELSE LET mid == (lo + hi + 1) \div 2
         IN  IF mid * mid <= n THEN SqrtIn(n, mid, hi) ELSE SqrtIn(n, lo, mid - 1)

ISqrt(n) == SqrtIn(n, 0, IF n < 46340 THEN n ELSE 46340)

\* calculateDistance(lat1, lon1, lat2, lon2), in 1/100 km, of coordinates in
\* 1/10000 degree.  With R = 6371 one degree of latitude is 111.19 km; the
\* haversine is taken in its small-angle form sqrt(dLat^2 + cos^2 * dLon^2)
\* with cos(lat1)cos(lat2) = cos^2(14 deg) = 0.9415, which is within 0.1 % of
\* it for the latitudes 13.7 .. 14.3 and distances under 100 km of the sheets.
CalculateDistance(lat1, lon1, lat2, lon2) ==
    LET dy == RoundDiv(Abs(lat2 - lat1) * 11119, 10000)
        dx == RoundDiv(Abs(lon2 - lon1) * 10789, 10000)
    IN  ISqrt(dy * dy + dx * dx)

-----------------------------------------------------------------------------
(* App: projectsInView *)

Null == [ok |-> FALSE, val |-> 0]

\* p.subUnits.map(u => u.price).filter(price => price > 0)
ValidPrices(p) ==
    SelectSeq([i \in DOMAIN p.subUnits |-> p.subUnits[i].price],
              LAMBDA price : price > 0)

\* getSegmentRange(seg), in 1/100; max of the last band is Infinity
GetSegmentRange(seg) ==
    CASE seg = "< 0.5"   -> [min |-> 0,    max |-> 50,   bounded |-> TRUE]
      [] seg = "0.5-1.0" -> [min |-> 50,   max |-> 100,  bounded |-> TRUE]
      [] seg = "1.0-2.0" -> [min |-> 100,  max |-> 200,  bounded |-> TRUE]
      [] seg = "2.0-3.0" -> [min |-> 200,  max |-> 300,  bounded |-> TRUE]
      [] seg = "3.0-5.0" -> [min |-> 300,  max |-> 500,  bounded |-> TRUE]
      [] seg = "5.0-10"  -> [min |-> 500,  max |-> 1000, bounded |-> TRUE]
      [] seg = "10-20"   -> [min |-> 1000, max |-> 2000, bounded |-> TRUE]
      [] seg = "> 20"    -> [min |-> 2000, max |-> 0,    bounded |-> FALSE]
      [] OTHER           -> [min |-> 0,    max |-> 0,    bounded |-> FALSE]

\* a radius test that lets every project through
WithinAnyRadius(p, ss) == TRUE

\* data.filter(p => (p.distance || 0) <= searchState.radius)
WithinRadius(p, ss) == p.distance <= ss.radius * 100

\* p.subUnits.some(u => searchState.typeFilter.includes(u.type))
MatchesType(p, ss) ==
    \E i \in DOMAIN p.subUnits : p.subUnits[i].type \in Range(ss.typeFilter)

\* a price-band predicate that holds the least price against both bounds
MatchesPriceBandByLeast(p, ss) ==
    LET validPrices == ValidPrices(p)
    IN  IF Len(validPrices) = 0 THEN FALSE
        ELSE /\ (ss.minPrice.ok => MinOf(validPrices) >= ss.minPrice.val)
             /\ (ss.maxPrice.ok => MinOf(validPrices) <= ss.maxPrice.val)

\* the price-band predicate
MatchesPriceBand(p, ss) ==
    LET validPrices == ValidPrices(p)
    IN  IF Len(validPrices) = 0 THEN FALSE
        ELSE /\ (ss.minPrice.ok => MaxOf(validPrices) >= ss.minPrice.val)
             /\ (ss.maxPrice.ok => MinOf(validPrices) <= ss.maxPrice.val)

\* a launch-date predicate that wants a date after the floor
MatchesLaunchDateAfter(p, minVal) ==
    \E i \in DOMAIN p.subUnits :
        LET d == ParseFloat(p.subUnits[i].launchDate, 2)
        IN  d.ok /\ d.val > minVal

\* the launch-date predicate, minVal = parseFloat(searchState.minLaunchDate)
MatchesLaunchDate(p, minVal) ==
    \E i \in DOMAIN p.subUnits :
        LET d == ParseFloat(p.subUnits[i].launchDate, 2)
        IN  d.ok /\ d.val >= minVal

\* parseFloat(p.percentSold) <= searchState.maxSoldPercent
MatchesSoldPercent(p, ss) ==
    ParseFloat(p.percentSold, 1).val <= ss.maxSoldPercent * 10

\* the price-segment predicate
MatchesPriceSegment(p, ss) ==
    LET range == GetSegmentRange(ss.priceSegment)
        validPrices == ValidPrices(p)
    IN  IF Len(validPrices) = 0 THEN FALSE
        ELSE /\ (range.bounded => MinOf(validPrices) < range.max)
             /\ MaxOf(validPrices) >= range.min

\* const projectsInView = useMemo(() => {...})
ProjectsInView(projs, ss) ==
    LET data0 == [i \in DOMAIN projs |->
                    [projectId   |-> projs[i].projectId,
                     lat         |-> projs[i].lat,
                     lng         |-> projs[i].lng,
                     code        |-> projs[i].code,
                     subUnits    |-> projs[i].subUnits,
                     totalUnits  |-> projs[i].totalUnits,
                     soldUnits   |-> projs[i].soldUnits,
                     percentSold |-> projs[i].percentSold,
                     priceRange  |-> projs[i].priceRange,
                     saleSpeed6m |-> projs[i].saleSpeed6m,
                     saleSpeed   |-> projs[i].saleSpeed,
                     distance    |-> CalculateDistance(ss.lat, ss.lng,
                                                       projs[i].lat, projs[i].lng)]]
        data1 == IF ss.searchMode = "location"
                 THEN SelectSeq(data0, LAMBDA p : WithinRadius(p, ss)) ELSE data0
        data2 == IF Len(ss.typeFilter) > 0
                 THEN SelectSeq(data1, LAMBDA p : MatchesType(p, ss)) ELSE data1
        data3 == IF ss.minPrice.ok \/ ss.maxPrice.ok
                 THEN SelectSeq(data2, LAMBDA p : MatchesPriceBand(p, ss)) ELSE data2
        minVal == ParseFloat(ss.minLaunchDate, 2)
        data4 == IF ss.minLaunchDate # << >> /\ minVal.ok
                 THEN SelectSeq(data3, LAMBDA p : MatchesLaunchDate(p, minVal.val))
                 ELSE data3
        data5 == IF ss.maxSoldPercent < 100
                 THEN SelectSeq(data4, LAMBDA p : MatchesSoldPercent(p, ss)) ELSE data4
        data6 == IF ss.priceSegment # ""
                 THEN SelectSeq(data5, LAMBDA p : MatchesPriceSegment(p, ss)) ELSE data5
    IN  data6

-----------------------------------------------------------------------------
(* App: filteredProjects *)

Sign(n) == IF n > 0 THEN 1 ELSE IF n < 0 THEN -1 ELSE 0

\* a.localeCompare(b) on the digit-and-punctuation strings of launch dates
LocaleCompare(a, b) == IF StrLess(a, b) THEN -1 ELSE IF StrLess(b, a) THEN 1 ELSE 0

\* getLaunch(p): the first of the sorted launch tokens other than '' and '-'
GetLaunch(p) ==
    LET dates == SelectSeq([i \in DOMAIN p.subUnits |-> p.subUnits[i].launchDate],
                           LAMBDA d : d # << >> /\ d # <<"-">>)
    IN  IF Len(dates) > 0 THEN ArraySort(dates, LocaleCompare)[1] ELSE << >>

\* a getPrice that takes the greatest positive subunit price
GetPriceGreatest(p) == IF Len(ValidPrices(p)) > 0 THEN MaxOf(ValidPrices(p)) ELSE 0

\* getPrice(p): the least positive subunit price, 0 without one
GetPrice(p) == IF Len(ValidPrices(p)) > 0 THEN MinOf(ValidPrices(p)) ELSE 0

\* the comparator without the two tests that put unpriced projects last
SortCmpUnpricedAsZero(sortBy, a, b) ==
    CASE sortBy = "percentSold" ->
            ParseFloat(b.percentSold, 1).val - ParseFloat(a.percentSold, 1).val
      [] sortBy = "speed6m" ->
            ParseFloat(b.saleSpeed6m, 2).val - ParseFloat(a.saleSpeed6m, 2).val
      [] sortBy = "speed" ->
            ParseFloat(b.saleSpeed, 2).val - ParseFloat(a.saleSpeed, 2).val
      [] sortBy = "unitLeft" ->
            (b.totalUnits - b.soldUnits) - (a.totalUnits - a.soldUnits)
      [] sortBy = "launchDate" -> LocaleCompare(GetLaunch(b), GetLaunch(a))
      [] sortBy = "priceAsc" -> Sign(GetPrice(a) - GetPrice(b))
      [] sortBy = "priceDesc" -> Sign(GetPrice(b) - GetPrice(a))
      [] OTHER -> a.distance - b.distance

\* the comparator of filteredProjects' data.sort((a, b) => ...)
SortCmp(sortBy, a, b) ==
    CASE sortBy = "percentSold" ->
            ParseFloat(b.percentSold, 1).val - ParseFloat(a.percentSold, 1).val
      [] sortBy = "speed6m" ->
            ParseFloat(b.saleSpeed6m, 2).val - ParseFloat(a.saleSpeed6m, 2).val
      [] sortBy = "speed" ->
            ParseFloat(b.saleSpeed, 2).val - ParseFloat(a.saleSpeed, 2).val
      [] sortBy = "unitLeft" ->
            (b.totalUnits - b.soldUnits) - (a.totalUnits - a.soldUnits)
      [] sortBy = "launchDate" -> LocaleCompare(GetLaunch(b), GetLaunch(a))
      [] sortBy \in {"priceAsc", "priceDesc"} ->
            LET priceA == GetPrice(a)
                priceB == GetPrice(b)
            IN  IF priceA = 0 /\ priceB > 0 THEN 1
                ELSE IF priceB = 0 /\ priceA > 0 THEN -1
                ELSE IF sortBy = "priceAsc" THEN Sign(priceA - priceB)
                ELSE Sign(priceB - priceA)
      [] OTHER -> a.distance - b.distance

\* a code selection that is applied in location mode only
CodeFilteredInLocationMode(inView, ss) ==
    IF Len(ss.codeFilter) > 0 /\ ss.searchMode = "location"
    THEN SelectSeq(inView, LAMBDA p : p.code \in Range(ss.codeFilter))
    ELSE inView

\* filteredProjects before the sort: the code selection
CodeFiltered(inView, ss) ==
    IF Len(ss.codeFilter) > 0
    THEN SelectSeq(inView, LAMBDA p : p.code \in Range(ss.codeFilter))
    ELSE inView

\* const filteredProjects = useMemo(() => {...})
FilteredProjects(inView, ss) ==
    ArraySort(CodeFiltered(inView, ss), LAMBDA a, b : SortCmp(ss.sortBy, a, b))

\* a pipeline that loses the first of several results
VisibleButFirst(projs, ss) ==
    LET out == FilteredProjects(ProjectsInView(projs, ss), ss)
    IN  IF Len(out) > 1 THEN Tail(out) ELSE out

\* the list the results panel, the map and the dashboard are given
Visible(projs, ss) == FilteredProjects(ProjectsInView(projs, ss), ss)

\* availableTypes, as the set the type buttons are drawn from
AvailableTypes(projs) ==
    UNION {{projs[i].subUnits[j].type : j \in DOMAIN projs[i].subUnits} :
              i \in DOMAIN projs}

-----------------------------------------------------------------------------
(* ExportDashboard: the price-segment histogram *)

\* the subunits added up when the type restriction is not looked at
WeightedOfAnyType(p, activeTypes) ==
    SelectSeq(p.subUnits, LAMBDA u : u.price > 0 /\ u.totalUnits > 0)

\* the subunits getProjectWeightedPriceStats adds up
Weighted(p, activeTypes) ==
    SelectSeq(p.subUnits,
              LAMBDA u : /\ (Len(activeTypes) = 0 \/ u.type \in Range(activeTypes))
                         /\ u.price > 0
                         /\ u.totalUnits > 0)

\* getProjectWeightedPriceStats(p).  avgPrice = weightedPriceSum /
\* weightedUnitsSum is kept exact as whole + rem / weightedUnitsSum (in 1/100),
\* added up quotient and remainder apart so that no product leaves 32 bits.
GetProjectWeightedPriceStats(p, activeTypes) ==
    LET us == Weighted(p, activeTypes)
        weightedUnitsSum == SumSeq([i \in DOMAIN us |-> us[i].totalUnits])
        quots == SumSeq([i \in DOMAIN us |->
                            (us[i].price \div weightedUnitsSum) * us[i].totalUnits])
        rems  == SumSeq([i \in DOMAIN us |->
                            (us[i].price % weightedUnitsSum) * us[i].totalUnits])
    IN  IF weightedUnitsSum > 0
        THEN [weightedUnitsSum |-> weightedUnitsSum,
              avgPrice |-> [whole |-> quots + rems \div weightedUnitsSum,
                            rem   |-> rems % weightedUnitsSum]]
        ELSE [weightedUnitsSum |-> 0, avgPrice |-> [whole |-> 0, rem |-> 0]]

\* priceSegments: the labels, and max in 1/100 MB (the last one is Infinity)
PriceSegments ==
    <<[label |-> "< 0.5",   max |-> 50],   [label |-> "0.5-1.0", max |-> 100],
      [label |-> "1.0-2.0", max |-> 200],  [label |-> "2.0-3.0", max |-> 300],
      [label |-> "3.0-5.0", max |-> 500],  [label |-> "5.0-10",  max |-> 1000],
      [label |-> "10-20",   max |-> 2000], [label |-> "> 20",    max |-> 0]>>

\* the if / else-if chain on priceMB = avgPrice < 1000 ? avgPrice : avgPrice / 1000000,
\* as the 1-based index of the bucket
SegmentIndex(avgPrice) ==
    LET scale == IF avgPrice.whole < 100000 THEN 1 ELSE 1000000
        Below(t) == avgPrice.whole < t * scale
        AtMost(t) == Below(t) \/ (avgPrice.whole = t * scale /\ avgPrice.rem = 0)
    IN  IF Below(50) THEN 1
        ELSE IF AtMost(100) THEN 2
        ELSE IF AtMost(200) THEN 3
        ELSE IF AtMost(300) THEN 4
        ELSE IF AtMost(500) THEN 5
        ELSE IF AtMost(1000) THEN 6
        ELSE IF AtMost(2000) THEN 7
        ELSE 8

\* priceCounts after projects.forEach, of a non-empty list (stats is null
\* of an empty one)
PriceCounts(projs, activeTypes) ==
    [k \in DOMAIN PriceSegments |->
        Cardinality({i \in DOMAIN projs :
            LET st == GetProjectWeightedPriceStats(projs[i], activeTypes)
            IN  st.weightedUnitsSum > 0 /\ SegmentIndex(st.avgPrice) = k})]

\* <ExportDashboard projects={filteredProjects} activeTypes={searchState.typeFilter} />
DashboardPriceCounts(projs, ss) == PriceCounts(Visible(projs, ss), ss.typeFilter)

-----------------------------------------------------------------------------
(* ExportDashboard: the type distribution *)

\* the elements of an array in the order a Set built from it iterates them
RECURSIVE Distinct(_)
Distinct(s) ==
    IF s = << >> THEN << >>
    ELSE IF s[Len(s)] \in Range(SubSeq(s, 1, Len(s) - 1))
         THEN Distinct(SubSeq(s, 1, Len(s) - 1))
         ELSE Append(Distinct(SubSeq(s, 1, Len(s) - 1)), s[Len(s)])

\* the types of a project, one for every subunit
ProjectTypesRepeated(p) == [j \in DOMAIN p.subUnits |-> p.subUnits[j].type]

\* new Set<string>(p.subUnits.map(u => u.type))
ProjectTypes(p) == Distinct([j \in DOMAIN p.subUnits |-> p.subUnits[j].type])

\* typeCounts[t] = (typeCounts[t] || 0) + 1; the object is kept as its
\* properties in the order they were added
Increment(typeCounts, t) ==
    IF \E k \in DOMAIN typeCounts : typeCounts[k].type = t
    THEN [k \in DOMAIN typeCounts |->
            IF typeCounts[k].type = t
            THEN [type |-> t, count |-> typeCounts[k].count + 1]
            ELSE typeCounts[k]]
    ELSE Append(typeCounts, [type |-> t, count |-> 1])

\* types.forEach((t) => {...})
RECURSIVE IncrementAll(_, _)
IncrementAll(typeCounts, types) ==
    IF types = << >> THEN typeCounts
    ELSE IncrementAll(Increment(typeCounts, Head(types)), Tail(types))

\* typeCounts after projects.forEach
RECURSIVE TypeCounts(_)
TypeCounts(projs) ==
    IF projs = << >> THEN << >>
    ELSE IncrementAll(TypeCounts(SubSeq(projs, 1, Len(projs) - 1)),
                      ProjectTypes(projs[Len(projs)]))

\* typeCounts[key]
CountOf(typeCounts, key) ==
    typeCounts[CHOOSE k \in DOMAIN typeCounts : typeCounts[k].type = key].count

\* Object.entries(typeCounts), in the order of Object.keys
Entries(typeCounts) ==
    [i \in DOMAIN typeCounts |->
        [type  |-> ObjectKeys([k \in DOMAIN typeCounts |-> typeCounts[k].type])[i],
         count |-> CountOf(typeCounts,
                       ObjectKeys([k \in DOMAIN typeCounts |-> typeCounts[k].type])[i])]]

\* .slice(0, 5)
TopTypes == 5

\* sortedTypes
SortedTypes(typeCounts) ==
    SubSeq(ArraySort(Entries(typeCounts), LAMBDA a, b : b.count - a.count),
           1, IF Len(typeCounts) < TopTypes THEN Len(typeCounts) ELSE TopTypes)

\* totalTypeCount
TotalTypeCount(typeCounts) ==
    SumSeq([k \in DOMAIN typeCounts |-> typeCounts[k].count])

Others == <<"O", "t", "h", "e", "r", "s">>

\* the slices of sortedTypes and, when they leave a remainder, 'Others';
\* percent = count / totalTypeCount is kept as the fraction num / den
Slices(sortedTypes, totalTypeCount) ==
    [i \in DOMAIN sortedTypes |->
        [label   |-> sortedTypes[i].type,
         count   |-> sortedTypes[i].count,
         percent |-> [num |-> sortedTypes[i].count, den |-> totalTypeCount]]]
    \o (IF totalTypeCount > SumSeq([i \in DOMAIN sortedTypes |-> sortedTypes[i].count])
        THEN <<[label   |-> Others,
                count   |-> totalTypeCount
                              - SumSeq([i \in DOMAIN sortedTypes |-> sortedTypes[i].count]),
                percent |-> [num |-> totalTypeCount
                                       - SumSeq([i \in DOMAIN sortedTypes |->
                                                    sortedTypes[i].count]),
                             den |-> totalTypeCount]]>>
        ELSE << >>)

\* pieChartData
PieChartData(typeCounts) ==
    Slices(SortedTypes(typeCounts), TotalTypeCount(typeCounts))

\* pieSlices: start and end of every slice, cumulativePercent running over
\* the fractions of one denominator
PieSlices(pieChartData) ==
    [i \in DOMAIN pieChartData |->
        [label |-> pieChartData[i].label,
         start |-> [num |-> SumSeq([j \in 1..(i - 1) |-> pieChartData[j].percent.num]),
                    den |-> pieChartData[i].percent.den],
         end   |-> [num |-> SumSeq([j \in 1..i |-> pieChartData[j].percent.num]),
                    den |-> pieChartData[i].percent.den]]]

-----------------------------------------------------------------------------
(* ExportDashboard: latest sale speed and the CSV export *)

\* key.match(/H([12])\.(\d+)/) of a history key: the match is at its start
PeriodOf(key) ==
    IF ~IsPeriodKey(key) THEN [year |-> 0, half |-> 0]
    ELSE [year |-> DigitsValue(KeyChars(key), 4, DigitRun(KeyChars(key), 4)),
          half |-> DigitVal(KeyChars(key)[2])]

\* comparator of keys.sort(...) in getLatestPeriodKey
PeriodCmp(a, b) ==
    IF PeriodOf(b).year # PeriodOf(a).year THEN PeriodOf(b).year - PeriodOf(a).year
    ELSE PeriodOf(b).half - PeriodOf(a).half

\* getLatestPeriodKey(history); null is ""
GetLatestPeriodKey(history) ==
    IF Len(history) = 0 THEN ""
    ELSE ArraySort(HistoryKeys(history), PeriodCmp)[1]

\* candidate.year > current.year ||
\* (candidate.year === current.year && candidate.half > current.half)
Later(candidate, current) ==
    \/ PeriodOf(candidate).year > PeriodOf(current).year
    \/ /\ PeriodOf(candidate).year = PeriodOf(current).year
       /\ PeriodOf(candidate).half > PeriodOf(current).half

\* latestPeriod after validUnits.forEach, of the units' latest keys
RECURSIVE LatestPeriod(_, _)
LatestPeriod(latestPeriod, periodKeys) ==
    IF periodKeys = << >> THEN latestPeriod
    ELSE LatestPeriod(IF Head(periodKeys) # ""
                         /\ (latestPeriod = "" \/ Later(Head(periodKeys), latestPeriod))
                      THEN Head(periodKeys) ELSE latestPeriod,
                      Tail(periodKeys))

\* a reading that takes every subunit at the latest key of its own history
SpeedAtOwnLatest(history, key) ==
    IF Len(history) = 0 THEN 0
    ELSE HistoryAt(history, GetLatestPeriodKey(history))

\* u.history[latestPeriod], undefined adding nothing
SpeedAt(history, key) ==
    IF \E i \in DOMAIN history : history[i].key = key
    THEN HistoryAt(history, key) ELSE 0

\* validUnits of getProjectLatestSaleSpeed and calculateProjectRowStats
ValidUnits(p, activeTypes) ==
    SelectSeq(p.subUnits,
              LAMBDA u : Len(activeTypes) = 0 \/ u.type \in Range(activeTypes))

\* totalSpeed > 0 ? totalSpeed.toFixed(2) : '-'
SpeedString(totalSpeed) ==
    IF totalSpeed > 0 THEN ToFixed(totalSpeed, 100, 2) ELSE <<"-">>

\* the sum over validUnits of the speed at latestPeriod, as the string returned
LatestSpeedAt(validUnits, latestPeriod) ==
    IF latestPeriod = "" THEN <<"-">>
    ELSE SpeedString(SumSeq([i \in DOMAIN validUnits |->
                                SpeedAt(validUnits[i].history, latestPeriod)]))

\* getProjectLatestSaleSpeed(p), of the units validUnits
LatestSaleSpeedOf(validUnits) ==
    IF Len(validUnits) = 0 THEN <<"-">>
    ELSE LatestSpeedAt(validUnits,
            LatestPeriod("", [i \in DOMAIN validUnits |->
                                 GetLatestPeriodKey(validUnits[i].history)]))

\* getProjectLatestSaleSpeed(p)
GetProjectLatestSaleSpeed(p, activeTypes) ==
    LatestSaleSpeedOf(ValidUnits(p, activeTypes))

\* parseFloat(getProjectLatestSaleSpeed(p)) || 0, in 1/100
ExportSpeed(p, activeTypes) ==
    OrZero(ParseFloat(GetProjectLatestSaleSpeed(p, activeTypes), 2))

\* an export that sorts on the total sale speed of the project
SortedByTotalSpeed(projs, activeTypes) ==
    ArraySort(projs, LAMBDA a, b :
        OrZero(ParseFloat(b.saleSpeed, 2)) - OrZero(ParseFloat(a.saleSpeed, 2)))

\* sortedProjectsForExport
SortedProjectsForExport(projs, activeTypes) ==
    ArraySort(projs, LAMBDA a, b :
        ExportSpeed(b, activeTypes) - ExportSpeed(a, activeTypes))

\* the projects of the CSV rows in rank order, of handleDownloadCSV in
\* <ExportDashboard projects={filteredProjects} activeTypes={searchState.typeFilter} />
ExportRows(projs, ss) ==
    SortedProjectsForExport(Visible(projs, ss), ss.typeFilter)

-----------------------------------------------------------------------------
(* Sidebar: what the controls offer *)

\* Array.from(set).sort(): the strings of S in code-unit order
RECURSIVE SortedStrings(_)
SortedStrings(S) ==
    IF S = {} THEN << >>
    ELSE LET least == CHOOSE x \in S : \A y \in S : ~StrLess(y, x)
         IN  <<least>> \o SortedStrings(S \ {least})

\* uniqueCodes
UniqueCodes(projs) ==
    SortedStrings({projs[i].code : i \in DOMAIN projs} \ {<< >>})

\* visibleCodes (getDistance is calculateDistance again)
VisibleCodes(projs, ss) ==
    IF ss.searchMode = "code" THEN UniqueCodes(projs)
    ELSE SortedStrings(
            {projs[i].code : i \in {j \in DOMAIN projs :
                /\ projs[j].code # << >>
                /\ CalculateDistance(ss.lat, ss.lng, projs[j].lat, projs[j].lng)
                      <= ss.radius * 100}})

\* s.split('.')
RECURSIVE SplitDot(_)
SplitDot(s) ==
    LET dots == {i \in DOMAIN s : s[i] = "."}
    IN  IF dots = {} THEN <<s>>
        ELSE LET d == CHOOSE i \in dots : \A j \in dots : i <= j
             IN  <<SubSeq(s, 1, d - 1)>> \o SplitDot(SubSeq(s, d + 1, Len(s)))

\* availableYears, as the set the year select is drawn from
AvailableYears(projs) ==
    {SplitDot(d)[1] :
        d \in UNION {{projs[i].subUnits[j].launchDate : j \in DOMAIN projs[i].subUnits} :
                        i \in DOMAIN projs} \ {<< >>, <<"-">>}} \ {<< >>}

\* currentLaunchYear, currentLaunchMonth
CurrentLaunchYear(ss) ==
    IF ss.minLaunchDate # << >> THEN SplitDot(ss.minLaunchDate)[1] ELSE << >>
CurrentLaunchMonth(ss) ==
    IF ss.minLaunchDate # << >> /\ Len(SplitDot(ss.minLaunchDate)) >= 2
    THEN SplitDot(ss.minLaunchDate)[2] ELSE << >>

-----------------------------------------------------------------------------
(* The imported sheets *)

\* column names of a sheet: the ID, latitude and longitude columns are
\* named as the layout says, the others by one of their aliases
Layouts ==
    { [name |-> "canonical.csv", id |-> "ID", lat |-> "Latitude", lng |-> "Longitude"],
      [name |-> "aliases.csv", id |-> " Id ", lat |-> "LAT", lng |-> "Lon"],
      [name |-> "no-id.csv", id |-> "Ref", lat |-> "Latitude", lng |-> "Longitude"] }

ColumnsOf(layout) ==
    <<layout.id, layout.lat, layout.lng, "Area Code", "Type", "Total units",
      "Sold", "Price", "Sale Speed 6m", "Sale Speed", "Launch Date",
      "H2.66", "H1.67", "H2.67", "H1.66 (12M)">>

\* results.data[i] of Papa.parse with header: true
RawRow(layout, cells) ==
    [keys |-> ColumnsOf(layout),
     val  |-> [k \in Range(ColumnsOf(layout)) |->
                 cells[CHOOSE i \in DOMAIN cells : ColumnsOf(layout)[i] = k]]]

P1 == <<"P", "1">>
Id7 == <<"7">>
A1 == <<"A", "1">>
B2 == <<"B", "2">>
Condo == <<"C", "o", "n", "d", "o">>
Town == <<"T", "o", "w", "n">>
Blank == << >>

Lat1375 == <<"1", "3", ".", "7", "5">>
Lat1420 == <<"1", "4", ".", "2">>
Lng10050 == <<"1", "0", "0", ".", "5", "0">>

\* the rows sheets are made of: <<id, lat, lng, code, type, total, sold,
\* price, speed6m, speed, launch, H2.66, H1.67, H2.67, H1.66 (12M)>>
RowP1Condo ==
    <<P1, Lat1375, Lng10050, A1, Condo, <<"1", "0", "0">>, <<"4", "0">>,
      <<"2", "5", "0", "0", "0", "0", "0">>, <<"0">>, <<"3", ".", "5">>,
      <<"6", "7", ".", "0", "1">>, Blank, <<"1", ".", "2">>, <<"0", ".", "9">>, Blank>>

RowP1Town ==
    <<P1, Lat1375, Lng10050, A1, <<" ", "T", "o", "w", "n", "ZWSP">>, <<"5", "0">>,
      <<"5", "0">>, <<"5", "0", "0", "0", "0", "0", "0">>, <<"2", ".", "5">>,
      <<"1">>, <<"6", "6", ".", "1", "2">>, <<"1", ".", "1">>, Blank, Blank,
      <<"4", ".", "0">>>>

RowZeroLat ==
    <<Id7, <<"0">>, Lng10050, B2, Condo, <<"0">>, <<"0">>, Blank, Blank, Blank,
      <<"-">>, <<"0", ".", "8">>, <<"0", ".", "9">>, Blank, Blank>>

RowOversold ==
    <<Id7, Lat1420, Lng10050, B2, Town, <<"1", "0">>, <<"2", "0">>,
      <<"2", ".", "5">>, <<"0">>, <<"0", ".", "5">>, Blank, Blank, Blank, Blank, Blank>>

RowNoId ==
    <<Blank, Lat1375, Lng10050, A1, Condo, <<"5">>, <<"5">>, <<"1", ".", "0">>,
      <<"1">>, <<"1">>, <<"6", "7", ".", "0", "1">>, Blank, Blank, Blank, Blank>>

RowBadCoords ==
    <<P1, <<"x">>, Blank, B2, Condo, <<"x">>, <<"1">>, <<"3", ".", "0">>,
      <<"0", ".", "0", "0">>, <<"1">>, <<"6", "7", ".", "0", "6">>,
      <<"x">>, Blank, <<"0", ".", "7">>, <<"0", ".", "2">>>>

RowCatalogue ==
    {RowP1Condo, RowP1Town, RowZeroLat, RowOversold, RowNoId, RowBadCoords}

\* rows of the sheets the filters are exercised on: no period columns
CityRow(id, lat, code, type, total, sold, price, speed6m, speed, launch) ==
    <<id, lat, Lng10050, code, type, total, sold, price, speed6m, speed, launch,
      Blank, Blank, Blank, Blank>>

RowQ1 ==
    CityRow(<<"Q", "1">>, <<"1", "3", ".", "7", "5", "0", "0">>, A1, Condo,
            <<"1", "0", "0">>, <<"4", "0">>, <<"2", "5", "0", "0", "0", "0", "0">>,
            <<"1", ".", "5">>, <<"3", ".", "5">>, <<"6", "7", ".", "0", "1">>)
\* 0.1 km north of Q1
RowQ2 ==
    CityRow(<<"Q", "2">>, <<"1", "3", ".", "7", "5", "0", "9">>, B2, Town,
            <<"5", "0">>, <<"5", "0">>, <<"5", "0", "0", "0", "0", "0", "0">>,
            <<"2", ".", "5">>, <<"1">>, <<"6", "6", ".", "1", "2">>)
\* 50 km north of Q1
RowQ3Condo ==
    CityRow(<<"Q", "3">>, Lat1420, A1, Condo, <<"1", "0">>, <<"2">>,
            <<"2", ".", "5">>, <<"0", ".", "5">>, <<"0", ".", "5">>,
            <<"6", "8", ".", "0", "6">>)
RowQ3Town ==
    CityRow(<<"Q", "3">>, Lat1420, A1, Town, <<"0">>, <<"0">>,
            <<"0", ".", "4">>, Blank, Blank, <<"-">>)
\* 2.2 km north of Q1
RowQ4 ==
    CityRow(<<"Q", "4">>, <<"1", "3", ".", "7", "7">>, B2, Condo, <<"8">>, <<"8">>,
            Blank, <<"1", ".", "5">>, <<"2">>, <<"9", ".", "0", "5">>)

\* rows of a sheet with prices in millions, on a band boundary and off it
RowR1 ==
    CityRow(<<"R", "1">>, <<"1", "3", ".", "7", "5", "0", "0">>, A1, Condo,
            <<"1", "0">>, <<"2">>, <<"3", ".", "0">>, <<"1">>, <<"1">>,
            <<"6", "7", ".", "0", "1">>)
RowR2 ==
    CityRow(<<"R", "2">>, <<"1", "3", ".", "7", "5", "0", "9">>, B2, Condo,
            <<"2", "0">>, <<"5">>, <<"2", ".", "5">>, <<"1">>, <<"1">>,
            <<"6", "7", ".", "0", "6">>)
RowR3Condo ==
    CityRow(<<"R", "3">>, <<"1", "3", ".", "7", "5", "0", "9">>, B2, Condo,
            <<"1", "0">>, <<"5">>, <<"5", ".", "0">>, <<"1">>, <<"1">>,
            <<"6", "7", ".", "0", "6">>)
RowR3Town ==
    CityRow(<<"R", "3">>, <<"1", "3", ".", "7", "5", "0", "9">>, B2, Town,
            <<"0">>, <<"0">>, <<"4", ".", "0">>, <<"1">>, <<"1">>,
            <<"6", "7", ".", "0", "6">>)

BandSheets == { <<RowR1, RowR2, RowR3Condo, RowR3Town>> }

CitySheets ==
    { <<RowQ1, RowQ2, RowQ3Condo, RowQ3Town, RowQ4>>,
      <<RowQ3Town, RowQ3Condo, RowQ2, RowOversold, RowP1Condo, RowP1Town>>,
      <<RowQ4, RowQ2, RowNoId>> }

\* rows of a market sheet: seven types, period columns on some rows.
\* <<id, lat, code, type, total, sold, price, speed, launch, H2.66, H1.67, H2.67>>
MarketRow(id, lat, code, type, total, sold, price, speed, launch, h266, h167, h267) ==
    <<id, lat, Lng10050, code, type, total, sold, price, Blank, speed, launch,
      h266, h167, h267, Blank>>

RowM1Condo ==
    MarketRow(<<"M", "1">>, <<"1", "3", ".", "7", "5", "0", "0">>, A1, Condo,
              <<"1", "0", "0">>, <<"4", "0">>, <<"2", ".", "5">>, <<"1">>,
              <<"6", "7", ".", "0", "1">>, Blank, Blank, <<"1", ".", "2">>)

RowM1Condo2 ==
    MarketRow(<<"M", "1">>, <<"1", "3", ".", "7", "5", "0", "0">>, A1, Condo,
              <<"5", "0">>, <<"1", "0">>, <<"3", ".", "2">>, <<"1">>,
              <<"6", "7", ".", "0", "6">>, Blank, Blank, <<"0", ".", "8">>)

RowM1Town ==
    MarketRow(<<"M", "1">>, <<"1", "3", ".", "7", "5", "0", "0">>, A1, Town,
              <<"2", "0">>, <<"5">>, <<"4", ".", "0">>, Blank,
              <<"6", "6", ".", "1", "2">>, Blank, <<"2", ".", "0">>, Blank)

RowM2Condo ==
    MarketRow(<<"M", "2">>, <<"1", "3", ".", "7", "5", "0", "9">>, B2, Condo,
              <<"3", "0">>, <<"3", "0">>, <<"1", ".", "5">>, <<"5">>,
              <<"6", "8", ".", "0", "1">>, Blank, Blank, <<"0", ".", "5">>)

RowM2Town ==
    MarketRow(<<"M", "2">>, <<"1", "3", ".", "7", "5", "0", "9">>, B2, Town,
              <<"1", "0">>, <<"0">>, <<"6", ".", "0">>, Blank,
              <<"-">>, Blank, Blank, Blank)

RowM2Villa ==
    MarketRow(<<"M", "2">>, <<"1", "3", ".", "7", "5", "0", "9">>, B2, <<"V", "i", "l", "l", "a">>,
              <<"5">>, <<"1">>, <<"1", "2", ".", "0">>, <<"2">>,
              <<"6", "6", ".", "0", "6">>, <<"3", ".", "0">>, Blank, Blank)

RowM3Condo ==
    MarketRow(<<"M", "3">>, <<"1", "3", ".", "7", "5", "1", "8">>, A1, Condo,
              <<"4", "0">>, <<"4">>, <<"0", ".", "9">>, Blank,
              Blank, Blank, Blank, Blank)

RowM3Shop ==
    MarketRow(<<"M", "3">>, <<"1", "3", ".", "7", "5", "1", "8">>, A1, <<"S", "h", "o", "p">>,
              <<"4">>, <<"0">>, Blank, Blank,
              Blank, Blank, Blank, Blank)

RowM3Office ==
    MarketRow(<<"M", "3">>, <<"1", "3", ".", "7", "5", "1", "8">>, A1, <<"O", "f", "f", "i", "c", "e">>,
              <<"3">>, <<"0">>, Blank, Blank,
              Blank, Blank, Blank, Blank)

RowM3Land ==
    MarketRow(<<"M", "3">>, <<"1", "3", ".", "7", "5", "1", "8">>, A1, <<"L", "a", "n", "d">>,
              <<"2">>, <<"0">>, Blank, Blank,
              Blank, Blank, Blank, Blank)

RowM3Hotel ==
    MarketRow(<<"M", "3">>, <<"1", "3", ".", "7", "5", "1", "8">>, A1, <<"H", "o", "t", "e", "l">>,
              <<"1">>, <<"0">>, Blank, Blank,
              Blank, Blank, Blank, Blank)

RowM4Condo ==
    MarketRow(<<"M", "4">>, <<"1", "3", ".", "7", "5", "2", "7">>, B2, Condo,
              <<"6", "0">>, <<"6">>, <<"0", ".", "4">>, Blank,
              <<"6", "7", ".", "0", "3">>, Blank, Blank, Blank)

\* the market sheet, and the same with the last project listed first
MarketSheets ==
    { <<RowM1Condo, RowM1Condo2, RowM1Town, RowM2Condo, RowM2Town, RowM2Villa,
        RowM3Condo, RowM3Shop, RowM3Office, RowM3Land, RowM3Hotel, RowM4Condo>>,
      <<RowM4Condo, RowM3Hotel, RowM3Condo, RowM2Villa, RowM1Town, RowM1Condo,
        RowM1Condo2>> }

RECURSIVE SeqsUpTo(_, _)
SeqsUpTo(S, n) ==
    IF n = 0 THEN {<< >>}
    ELSE LET shorter == SeqsUpTo(S, n - 1)
         IN  shorter \cup {Append(q, x) : q \in shorter, x \in S}

\* a file: its name and the rows Papa.parse yields for it
Files ==
    { [name |-> layout.name,
       data |-> [i \in DOMAIN rows |-> RawRow(layout, rows[i])]] :
         layout \in Layouts, rows \in SeqsUpTo(RowCatalogue, MaxRows) \ {<< >>} }

-----------------------------------------------------------------------------
(* App *)

\* useState<SearchState>({...})
InitialSearchState ==
    [lat |-> 137563, lng |-> 1005018, radius |-> 3,
     searchMode |-> "location", codeFilter |-> << >>, typeFilter |-> << >>,
     sortBy |-> "distance", minPrice |-> Null, maxPrice |-> Null,
     minLaunchDate |-> << >>, maxSoldPercent |-> 100, priceSegment |-> ""]

\* null, and a value that is not, of a state that holds an object or null
None == [ok |-> FALSE]
Some(x) == [ok |-> TRUE, val |-> x]

\* useState({ mall: [], hospital: [], school: [] })
NoPlaces == [mall |-> << >>, hospital |-> << >>, school |-> << >>]

\* useRef<{lat, lng, radius} | null>(null)
NoFetch == [ok |-> FALSE, lat |-> 0, lng |-> 0, radius |-> 0]

\* [searchState.lat, searchState.lng, searchState.radius]
Deps(ss) == [lat |-> ss.lat, lng |-> ss.lng, radius |-> ss.radius]

\* a run of the effect: the values of its closure and where it stands.
\*   pc = "timer"  the setTimeout callback is pending
\*        "fetch"  awaiting fetch(OVERPASS_SERVERS[server])
\*        "json"   awaiting response.json() of that server
\*        "done"   fetchAllPlaces has returned
Effect(deps) ==
    [lat |-> deps.lat, lng |-> deps.lng, radius |-> deps.radius,
     isMounted |-> TRUE, pc |-> "timer", server |-> 0]

\* the application at start, with one of the files F in the upload input
Started(F) ==
    /\ file \in F
    /\ projects = << >>
    /\ fileName = ""
    /\ loading = FALSE
    /\ searchState = InitialSearchState
    /\ showUploadModal = TRUE
    /\ nearbyPlaces = << >>
    /\ placesData = NoPlaces
    /\ isLoading = FALSE
    /\ errorMsg = ""
    /\ lastFetchRef = NoFetch
    /\ effects = <<Effect(Deps(InitialSearchState))>>
    /\ activeProject = None
    /\ selectedProject = None
    /\ activePlace = None
    /\ showExportModal = FALSE
    /\ lastOp = "init"

Init == Started(Files)

\* handleFileUpload, when parseCSV resolves
HandleFileUpload ==
    /\ showUploadModal
    /\ projects' = ParseCSV(file.data)
    /\ fileName' = file.name
    /\ IF Len(projects') > 0
       THEN /\ searchState' = [searchState EXCEPT !.lat = projects'[1].lat,
                                                  !.lng = projects'[1].lng]
            /\ showUploadModal' = FALSE
       ELSE UNCHANGED <<searchState, showUploadModal>>
    /\ loading' = FALSE
    /\ lastOp' = "handleFileUpload"
    /\ UNCHANGED <<file, panelVars, viewVars>>

\* the files of the sheets above, under the canonical column names
CityFiles ==
    { [name |-> "city.csv",
       data |-> [i \in DOMAIN rows |->
                    RawRow(CHOOSE l \in Layouts : l.name = "canonical.csv", rows[i])]] :
         rows \in CitySheets }

\* the files of the sheets with prices in millions
BandFiles ==
    { [name |-> "bands.csv",
       data |-> [i \in DOMAIN rows |->
                    RawRow(CHOOSE l \in Layouts : l.name = "canonical.csv", rows[i])]] :
         rows \in BandSheets }

\* the files of the market sheets
MarketFiles ==
    { [name |-> "market.csv",
       data |-> [i \in DOMAIN rows |->
                    RawRow(CHOOSE l \in Layouts : l.name = "canonical.csv", rows[i])]] :
         rows \in MarketSheets }

\* the user drops the first data row from the sheet before importing again
EditFile ==
    /\ Len(file.data) > 1
    /\ file' = [file EXCEPT !.data = Tail(file.data)]
    /\ lastOp' = "editFile"
    /\ UNCHANGED <<projects, fileName, loading, searchState, showUploadModal, panelVars, viewVars>>

\* the refresh / Upload CSV button of the brand pill, under the overlay while it shows
OpenUploadModal ==
    /\ ~showUploadModal
    /\ showUploadModal' = TRUE
    /\ lastOp' = "openUploadModal"
    /\ UNCHANGED <<file, projects, fileName, loading, searchState, panelVars, viewVars>>

\* the X of the overlay, rendered when projects.length > 0
CloseUploadModal ==
    /\ showUploadModal
    /\ Len(projects) > 0
    /\ showUploadModal' = FALSE
    /\ lastOp' = "closeUploadModal"
    /\ UNCHANGED <<file, projects, fileName, loading, searchState, panelVars, viewVars>>

NextImport == HandleFileUpload \/ EditFile \/ OpenUploadModal \/ CloseUploadModal

\* imports only: the normalizer on every sheet of Files
SpecImport == Init /\ [][NextImport]_vars

-----------------------------------------------------------------------------
(* Sidebar and App: the handlers that change the search state *)

\* a recomputation that writes the distance on the imported projects
ProjectsWithDistanceWritten(projs, ss) ==
    [i \in DOMAIN projs |->
        [distance |-> CalculateDistance(ss.lat, ss.lng, projs[i].lat, projs[i].lng)]
           @@ projs[i]]

\* the imported projects after projectsInView and filteredProjects are
\* recomputed for the search state ss: projects.map(p => ({...p, distance}))
\* builds a new array of new objects, and [...projectsInView] is the array that
\* filter() reads and sort() orders
ProjectsAfterRecomputation(projs, ss) == projs

SetSearch(ss, op) ==
    /\ searchState' = ss
    /\ projects' = ProjectsAfterRecomputation(projects, ss)
    /\ lastOp' = op
    /\ UNCHANGED <<file, fileName, loading, showUploadModal, panelVars, viewVars>>

\* current.includes(x) ? current.filter(c => c !== x) : [...current, x]
Toggle(current, x) ==
    IF x \in Range(current) THEN SelectSeq(current, LAMBDA c : c # x)
    ELSE Append(current, x)

\* handleModeSwitch(mode)
HandleModeSwitchFirstRow(mode) ==
    LET newCodeFilter ==
            IF mode = "code"
            THEN IF Len(searchState.codeFilter) = 0 /\ Len(projects) > 0
                 THEN <<projects[1].code>> ELSE searchState.codeFilter
            ELSE << >>
    IN  SetSearch([searchState EXCEPT !.searchMode = mode,
                                      !.codeFilter = newCodeFilter],
                  "handleModeSwitch")

\* handleModeSwitch(mode)
HandleModeSwitch(mode) ==
    LET uniqueCodes == UniqueCodes(projects)
        newCodeFilter ==
            IF mode = "code"
            THEN IF Len(searchState.codeFilter) = 0 /\ Len(uniqueCodes) > 0
                 THEN <<uniqueCodes[1]>> ELSE searchState.codeFilter
            ELSE << >>
    IN  SetSearch([searchState EXCEPT !.searchMode = mode,
                                      !.codeFilter = newCodeFilter],
                  "handleModeSwitch")

\* handleTypeToggle(type), from a button of availableTypes
HandleTypeToggle(type) ==
    /\ type \in AvailableTypes(projects)
    /\ SetSearch([searchState EXCEPT !.typeFilter = Toggle(@, type)],
                 "handleTypeToggle")

\* handleCodeToggle(code), from a button of the codes on offer
HandleCodeToggle(code) ==
    /\ code \in Range(VisibleCodes(projects, searchState))
    /\ SetSearch([searchState EXCEPT !.codeFilter = Toggle(@, code)],
                 "handleCodeToggle")

\* the Clear buttons: setSearchState(prev => ({...prev, codeFilter: []})), ...
ClearCodeFilter ==
    /\ Len(searchState.codeFilter) > 0
    /\ SetSearch([searchState EXCEPT !.codeFilter = << >>], "clearCodeFilter")

ClearTypeFilter ==
    /\ Len(searchState.typeFilter) > 0
    /\ SetSearch([searchState EXCEPT !.typeFilter = << >>], "clearTypeFilter")

\* handleRadiusChange(r), from the buttons [1, 3, 5, 10] of location mode
RadiusButtons == {1, 3, 5, 10}
\* the buttons the model presses
RadiiTried == {1, 3}

HandleRadiusChange(r) ==
    /\ searchState.searchMode = "location"
    /\ r \in RadiusButtons
    /\ SetSearch([searchState EXCEPT !.radius = r], "handleRadiusChange")

\* handleLaunchDateChange(year, month)
HandleLaunchDateChange(year, month) ==
    IF year = << >>
    THEN SetSearch([searchState EXCEPT !.minLaunchDate = << >>],
                   "handleLaunchDateChange")
    ELSE LET m == IF month = << >> THEN <<"0", "1">> ELSE month
         IN  SetSearch([searchState EXCEPT !.minLaunchDate = year \o <<".">> \o m],
                       "handleLaunchDateChange")

\* the year select: onChange={(e) => handleLaunchDateChange(e.target.value, currentLaunchMonth)}
SelectLaunchYear(year) ==
    /\ year \in AvailableYears(projects) \cup {<< >>}
    /\ HandleLaunchDateChange(year, CurrentLaunchMonth(searchState))

\* the years and months the model picks among the options of the two selects
LaunchYearsTried == {<<"6", "7">>}
LaunchMonths == {<<"0", "1">>, <<"0", "6">>}

\* the month select, disabled without a year
SelectLaunchMonth(month) ==
    /\ CurrentLaunchYear(searchState) # << >>
    /\ HandleLaunchDateChange(CurrentLaunchYear(searchState), month)

\* the positions of the sold-percent slider (0..100) the model visits
SoldPercentStops == {40, 100}

\* onChange={(e) => setSearchState(prev => ({...prev, maxSoldPercent: parseInt(e.target.value)}))}
SetMaxSoldPercent(v) ==
    /\ v # searchState.maxSoldPercent
    /\ SetSearch([searchState EXCEPT !.maxSoldPercent = v], "setMaxSoldPercent")

\* the values of SearchState.sortBy; the setter takes e.target.value as it is
SortKeys ==
    {"distance", "percentSold", "speed6m", "speed", "priceAsc", "priceDesc",
     "unitLeft", "launchDate"}

\* onChange={(e) => setSearchState(prev => ({...prev, sortBy: e.target.value}))}
SetSortBy(key) ==
    /\ key # searchState.sortBy
    /\ SetSearch([searchState EXCEPT !.sortBy = key], "setSortBy")

\* what the user has typed in the search box, split at ','
SearchQueries ==
    { <<<<"1", "4", ".", "2">>, <<" ", "1", "0", "0", ".", "5", "1">>>>,
      <<<<"x">>, <<"1", "0", "0", ".", "5">>>>,
      <<<<"1", "3", ".", "7", "5">>>> }

\* handleSearchAction, with parts = unifiedSearchInput.trim().split(',')
HandleSearchAction(parts) ==
    /\ searchState.searchMode = "location"
    /\ Len(parts) = 2
    /\ ParseFloat(Trim(parts[1]), 4).ok
    /\ ParseFloat(Trim(parts[2]), 4).ok
    /\ searchState' = [searchState EXCEPT !.lat = ParseFloat(Trim(parts[1]), 4).val,
                                          !.lng = ParseFloat(Trim(parts[2]), 4).val]
    /\ projects' = ProjectsAfterRecomputation(projects, searchState')
    /\ selectedProject' = None
    /\ activePlace' = None
    /\ lastOp' = "handleSearchAction"
    /\ UNCHANGED <<file, fileName, loading, showUploadModal, panelVars,
                   activeProject, showExportModal>>

\* handleResetFilters
HandleResetFilters ==
    SetSearch([searchState EXCEPT !.radius = 3, !.codeFilter = << >>,
                                  !.typeFilter = << >>, !.minPrice = Null,
                                  !.maxPrice = Null, !.minLaunchDate = << >>,
                                  !.maxSoldPercent = 100],
              "handleResetFilters")

FilterStep ==
    \/ \E mode \in {"location", "code"} : HandleModeSwitch(mode)
    \/ \E type \in AvailableTypes(projects) : HandleTypeToggle(type)
    \/ \E code \in Range(UniqueCodes(projects)) : HandleCodeToggle(code)
    \/ ClearCodeFilter
    \/ ClearTypeFilter
    \/ \E r \in RadiiTried : HandleRadiusChange(r)
    \/ \E year \in LaunchYearsTried \cup {<< >>} : SelectLaunchYear(year)
    \/ \E month \in LaunchMonths : SelectLaunchMonth(month)
    \/ \E v \in SoldPercentStops : SetMaxSoldPercent(v)
    \/ \E parts \in SearchQueries : HandleSearchAction(parts)
    \/ HandleResetFilters

NextFilter == HandleFileUpload \/ FilterStep

\* one city sheet imported, then any use of the filter controls
SpecFilter == Started(CityFiles) /\ [][NextFilter]_vars

NextSort ==
    \/ HandleFileUpload
    \/ \E key \in SortKeys : SetSortBy(key)
    \/ \E mode \in {"location", "code"} : HandleModeSwitch(mode)
    \/ \E r \in RadiiTried : HandleRadiusChange(r)
    \/ \E code \in Range(UniqueCodes(projects)) : HandleCodeToggle(code)

\* one city sheet imported, then the sort menu and the controls that change
\* which projects there are to sort
SpecSort == Started(CityFiles) /\ [][NextSort]_vars

\* the bounds of the price band the model sets, in 1/100: null, 1.00, 3.00
\* and 3,000,000.00
PriceBounds ==
    {Null, [ok |-> TRUE, val |-> 100], [ok |-> TRUE, val |-> 300],
     [ok |-> TRUE, val |-> 300000000]}

\* the mutation of SearchState.minPrice and maxPrice by user interaction
SetPriceBand(minPrice, maxPrice) ==
    /\ <<minPrice, maxPrice>> # <<searchState.minPrice, searchState.maxPrice>>
    /\ SetSearch([searchState EXCEPT !.minPrice = minPrice, !.maxPrice = maxPrice],
                 "setPriceBand")

\* the labels of the eight bands a price segment is chosen among
SegmentLabels == {PriceSegments[k].label : k \in DOMAIN PriceSegments}

\* the mutation of SearchState.priceSegment by user interaction: a band, or
\* none ('' is null)
SetPriceSegment(seg) ==
    /\ seg # searchState.priceSegment
    /\ SetSearch([searchState EXCEPT !.priceSegment = seg], "setPriceSegment")

NextPrice ==
    \/ HandleFileUpload
    \/ \E minPrice, maxPrice \in PriceBounds : SetPriceBand(minPrice, maxPrice)
    \/ \E seg \in SegmentLabels \cup {""} : SetPriceSegment(seg)
    \/ \E mode \in {"location", "code"} : HandleModeSwitch(mode)
    \/ HandleResetFilters

\* one city sheet imported, then the price band, the price segment, the mode
\* switch and the reset
SpecPrice == Started(CityFiles \cup BandFiles) /\ [][NextPrice]_vars

\* the types the model toggles in the dashboard runs
TypesTried == {Condo, <<"V", "i", "l", "l", "a">>}

NextDashboard ==
    \/ HandleFileUpload
    \/ \E key \in SortKeys : SetSortBy(key)
    \/ \E type \in TypesTried : HandleTypeToggle(type)
    \/ ClearTypeFilter
    \/ \E r \in RadiiTried : HandleRadiusChange(r)

\* a market or city sheet imported, then the controls that change what the
\* export dashboard is given
SpecDashboard == Started(MarketFiles \cup CityFiles) /\ [][NextDashboard]_vars

-----------------------------------------------------------------------------
(* App: handleFileUpload around its await *)

\* handleFileUpload up to `await parseCSV(file)`: setLoading(true)
StartUpload ==
    /\ showUploadModal
    /\ ~loading
    /\ loading' = TRUE
    /\ lastOp' = "startUpload"
    /\ UNCHANGED <<file, projects, fileName, searchState, showUploadModal, panelVars, viewVars>>

\* parseCSV resolves: the rest of the try block, then the finally
ParseResolves == loading /\ HandleFileUpload

\* a catch block that also drops the list
ParseRejectsClearing ==
    /\ loading
    /\ loading' = FALSE
    /\ projects' = << >>
    /\ lastOp' = "parseRejects"
    /\ UNCHANGED <<file, fileName, searchState, showUploadModal, panelVars, viewVars>>

\* parseCSV rejects (the error callback of Papa.parse, or an exception in
\* complete): the catch block (alert, console.error), then the finally
ParseRejects ==
    /\ loading
    /\ loading' = FALSE
    /\ lastOp' = "parseRejects"
    /\ UNCHANGED <<file, projects, fileName, searchState, showUploadModal, panelVars, viewVars>>

\* the controls are under the loading indicator while it shows
NextUpload ==
    \/ StartUpload
    \/ ParseResolves
    \/ ParseRejects
    \/ ~loading /\ EditFile
    \/ ~loading /\ OpenUploadModal
    \/ ~loading /\ CloseUploadModal
    \/ ~loading /\ \E r \in RadiiTried : HandleRadiusChange(r)
    \/ ~loading /\ \E mode \in {"location", "code"} : HandleModeSwitch(mode)

\* imports that succeed or fail, among changes of the search state
SpecUpload == Started(CityFiles) /\ [][NextUpload]_vars

-----------------------------------------------------------------------------
(* ResultsPanel: the effect that fetches the nearby places *)

\* OVERPASS_SERVERS
OverpassServers ==
    <<"https://overpass-api.de/api/interpreter",
      "https://lz4.overpass-api.de/api/interpreter",
      "https://overpass.kumi.systems/api/interpreter",
      "https://maps.mail.ru/osm/tools/overpass/api/interpreter">>

\* the map data the mirrors serve: elements with their tags and position
\* (1/10000 degree); a way and its node may share an id
OsmElements ==
    <<[id |-> 101, name |-> "Central Plaza", shop |-> "mall", amenity |-> "",
       lat |-> 137520, lon |-> 1005010],
      [id |-> 102, name |-> "City Hospital", shop |-> "", amenity |-> "hospital",
       lat |-> 137700, lon |-> 1005018],
      [id |-> 103, name |-> "7-Eleven", shop |-> "department_store", amenity |-> "",
       lat |-> 137560, lon |-> 1005018],
      [id |-> 104, name |-> "", shop |-> "", amenity |-> "school",
       lat |-> 137565, lon |-> 1005018],
      [id |-> 101, name |-> "Central Plaza", shop |-> "mall", amenity |-> "",
       lat |-> 137520, lon |-> 1005010],
      [id |-> 105, name |-> "Pet Clinic", shop |-> "", amenity |-> "hospital",
       lat |-> 137510, lon |-> 1005000],
      [id |-> 106, name |-> "Town College", shop |-> "", amenity |-> "college",
       lat |-> 142010, lon |-> 1005100],
      [id |-> 107, name |-> "Corner Cafe", shop |-> "", amenity |-> "cafe",
       lat |-> 137505, lon |-> 1005000],
      [id |-> 108, name |-> "Riverside School", shop |-> "", amenity |-> "school",
       lat |-> 137503, lon |-> 1005003]>>

\* data.elements of the query (around:radius*1000, lat, lng) on a mirror that answers
Elements(lat, lng, radius) ==
    SelectSeq(OsmElements,
              LAMBDA el : CalculateDistance(lat, lng, el.lat, el.lon) <= radius * 100)

\* the priority check on tags.shop and tags.amenity; null is ""
PlaceType(el) ==
    IF el.shop \in {"mall", "department_store"} THEN "mall"
    ELSE IF el.amenity = "hospital" THEN "hospital"
    ELSE IF el.amenity \in {"school", "university", "college"} THEN "school"
    ELSE ""

\* exclude...some(ex => nameLower.includes(ex)), on the names of OsmElements
Excluded(type, name) ==
    \/ type = "mall" /\ name = "7-Eleven"
    \/ type = "hospital" /\ name = "Pet Clinic"

\* whether data.elements.forEach comes to push element i
Pushed(elements, i, lat, lng) ==
    /\ \A j \in 1..(i - 1) : elements[j].id # elements[i].id
    /\ elements[i].name # ""
    /\ elements[i].lat # 0 /\ elements[i].lon # 0
    /\ PlaceType(elements[i]) # ""
    /\ ~Excluded(PlaceType(elements[i]), elements[i].name)

\* placeObj (the random rating is left out), distance in 1/100 km
PlaceObj(el, lat, lng) ==
    [id |-> el.id, name |-> el.name, type |-> PlaceType(el),
     distance |-> CalculateDistance(lat, lng, el.lat, el.lon),
     lat |-> el.lat, lng |-> el.lon]

\* allPlacesFlat
AllPlacesFlat(elements, lat, lng) ==
    LET pushed == SelectSeq([i \in DOMAIN elements |-> i],
                            LAMBDA i : Pushed(elements, i, lat, lng))
    IN  [k \in DOMAIN pushed |-> PlaceObj(elements[pushed[k]], lat, lng)]

\* newPlaces, every category sorted by distance
NewPlaces(allPlacesFlat) ==
    [type \in {"mall", "hospital", "school"} |->
        ArraySort(SelectSeq(allPlacesFlat, LAMBDA place : place.type = type),
                  LAMBDA a, b : a.distance - b.distance)]

\* the runs of the effect that can no longer act are dropped, but for the last
Unfinished(es) ==
    SelectSeq(SubSeq(es, 1, Len(es) - 1), LAMBDA e : e.pc \in {"fetch", "json"})
        \o <<es[Len(es)]>>

\* an action of the effect run i that sets the panel state as told
PanelStep(i, e, op) ==
    /\ effects' = Unfinished([effects EXCEPT ![i] = e])
    /\ lastOp' = op
    /\ UNCHANGED <<file, projects, fileName, loading, searchState, showUploadModal,
                   viewVars>>

\* a cleanup that sets isMounted = false and leaves the timer to fire
RunEffectTimerLeft ==
    /\ Deps(searchState) # Deps(effects[Len(effects)])
    /\ effects' = SelectSeq([effects EXCEPT ![Len(effects)].isMounted = FALSE],
                            LAMBDA e : e.pc \in {"timer", "fetch", "json"})
                    \o <<Effect(Deps(searchState))>>
    /\ lastOp' = "runEffect"
    /\ UNCHANGED <<file, projects, fileName, loading, searchState, showUploadModal,
                   nearbyPlaces, placesData, isLoading, errorMsg, lastFetchRef,
                   viewVars>>

\* the effect runs again when lat, lng or radius differ from those of its last
\* run: the cleanup of the last run (isMounted = false, clearTimeout), then
\* the new setTimeout
RunEffect ==
    /\ Deps(searchState) # Deps(effects[Len(effects)])
    /\ effects' = SelectSeq([effects EXCEPT ![Len(effects)].isMounted = FALSE],
                            LAMBDA e : e.pc \in {"fetch", "json"})
                    \o <<Effect(Deps(searchState))>>
    /\ lastOp' = "runEffect"
    /\ UNCHANGED <<file, projects, fileName, loading, searchState, showUploadModal,
                   nearbyPlaces, placesData, isLoading, errorMsg, lastFetchRef,
                   viewVars>>

\* the timer fires: fetchAllPlaces up to its first await
TimerFires(i) ==
    /\ effects[i].pc = "timer"
    /\ IF /\ lastFetchRef.ok
          /\ lastFetchRef.lat = effects[i].lat
          /\ lastFetchRef.lng = effects[i].lng
          /\ lastFetchRef.radius = effects[i].radius
       THEN /\ PanelStep(i, [effects[i] EXCEPT !.pc = "done"], "timerFires")
            /\ UNCHANGED <<nearbyPlaces, placesData, isLoading, errorMsg, lastFetchRef>>
       ELSE /\ isLoading' = TRUE
            /\ errorMsg' = ""
            /\ placesData' = NoPlaces
            /\ nearbyPlaces' = << >>
            /\ PanelStep(i, [effects[i] EXCEPT !.pc = "fetch", !.server = 1],
                         "timerFires")
            /\ UNCHANGED lastFetchRef

\* throw new Error(...) -> catch: setErrorMsg -> finally: if (isMounted) setIsLoading(false)
AllFailed(i, op) ==
    /\ errorMsg' = "Failed to load nearby places. High traffic."
    /\ isLoading' = IF effects[i].isMounted THEN FALSE ELSE isLoading
    /\ PanelStep(i, [effects[i] EXCEPT !.pc = "done"], op)
    /\ UNCHANGED <<nearbyPlaces, placesData, lastFetchRef>>

\* continue: the next turn of the for loop, or what follows the loop
Continue(i, op) ==
    IF effects[i].server < Len(OverpassServers) /\ effects[i].isMounted
    THEN /\ PanelStep(i, [effects[i] EXCEPT !.server = @ + 1, !.pc = "fetch"], op)
         /\ UNCHANGED <<nearbyPlaces, placesData, isLoading, errorMsg, lastFetchRef>>
    ELSE AllFailed(i, op)

\* what a request to a mirror comes to: a 2xx response, 429, another status,
\* or fetch rejects
FetchOutcomes == {"ok", "429", "500", "rejected"}

\* await fetch(server, {...}) settles
FetchSettles(i, outcome) ==
    /\ effects[i].pc = "fetch"
    /\ IF outcome = "ok"
       THEN /\ PanelStep(i, [effects[i] EXCEPT !.pc = "json"], "fetchSettles")
            /\ UNCHANGED <<nearbyPlaces, placesData, isLoading, errorMsg, lastFetchRef>>
       ELSE Continue(i, "fetchSettles")

\* what follows the loop after success
Commit(i) ==
    IF ~effects[i].isMounted
    THEN /\ PanelStep(i, [effects[i] EXCEPT !.pc = "done"], "jsonSettles")
         /\ UNCHANGED <<nearbyPlaces, placesData, isLoading, errorMsg, lastFetchRef>>
    ELSE /\ nearbyPlaces' = AllPlacesFlat(
                Elements(effects[i].lat, effects[i].lng, effects[i].radius),
                effects[i].lat, effects[i].lng)
         /\ placesData' = NewPlaces(nearbyPlaces')
         /\ lastFetchRef' = [ok |-> TRUE, lat |-> effects[i].lat,
                             lng |-> effects[i].lng, radius |-> effects[i].radius]
         /\ isLoading' = FALSE
         /\ PanelStep(i, [effects[i] EXCEPT !.pc = "done"], "jsonSettles")
         /\ UNCHANGED errorMsg

\* await response.json() settles: with the body parsed, or rejected
JsonSettles(i, parsed) ==
    /\ effects[i].pc = "json"
    /\ IF parsed THEN Commit(i) ELSE Continue(i, "jsonSettles")

\* requests of superseded runs of the effect that may be outstanding at once
MaxEffects == 1

\* one more run of the effect may be superseded
CanSupersede ==
    Len(SelectSeq(effects, LAMBDA e : e.pc \in {"fetch", "json"})) <= MaxEffects

\* the effects of the last render have run: React runs them before it
\* handles the next event or timer
Flushed == Deps(searchState) = Deps(effects[Len(effects)])

NextPlaces ==
    \/ Flushed /\ CanSupersede /\ \E r \in RadiiTried : HandleRadiusChange(r)
    \/ Flushed /\ CanSupersede /\ \E parts \in SearchQueries : HandleSearchAction(parts)
    \/ RunEffect
    \/ Flushed /\ \E i \in DOMAIN effects : TimerFires(i)
    \/ Flushed /\ \E i \in DOMAIN effects, outcome \in FetchOutcomes :
                      FetchSettles(i, outcome)
    \/ Flushed /\ \E i \in DOMAIN effects, parsed \in BOOLEAN : JsonSettles(i, parsed)

\* the radius and the centre change while the panel fetches, no sheet imported
SpecPlaces == Started({f \in CityFiles : Len(f.data) = 3}) /\ [][NextPlaces]_vars

-----------------------------------------------------------------------------
(* App: the selection and the export dashboard *)

\* a handler that sets only what is selected or shown
SetView(op) ==
    /\ lastOp' = op
    /\ UNCHANGED <<file, projects, fileName, loading, searchState, showUploadModal,
                   panelVars>>

\* handleProjectSelect(project), from a row of the results panel or a marker
\* of the map, which both show filteredProjects
HandleProjectSelect(project) ==
    /\ project \in Range(Visible(projects, searchState))
    /\ activeProject' = Some(project)
    /\ selectedProject' = Some(project)
    /\ activePlace' = None
    /\ UNCHANGED showExportModal
    /\ SetView("handleProjectSelect")

\* the places the panel lists
ListedPlaces ==
    Range(placesData.mall) \cup Range(placesData.hospital) \cup Range(placesData.school)

\* a handler that selects the place and leaves the project selected
HandlePlaceSelectOnly(place) ==
    /\ place \in ListedPlaces
    /\ activePlace' = Some(place)
    /\ UNCHANGED <<selectedProject, activeProject, showExportModal>>
    /\ SetView("handlePlaceSelect")

\* handlePlaceSelect(place), from a row of the nearby places
HandlePlaceSelect(place) ==
    /\ place \in ListedPlaces
    /\ activePlace' = Some(place)
    /\ selectedProject' = None
    /\ activeProject' = None
    /\ UNCHANGED showExportModal
    /\ SetView("handlePlaceSelect")

\* onClose={() => setSelectedProject(null)} of the detail panel
CloseDetailPanel ==
    /\ selectedProject.ok
    /\ selectedProject' = None
    /\ UNCHANGED <<activeProject, activePlace, showExportModal>>
    /\ SetView("closeDetailPanel")

\* onClick={() => setShowExportModal(true)} of the export button
OpenExport ==
    /\ ~showExportModal
    /\ showExportModal' = TRUE
    /\ UNCHANGED <<activeProject, selectedProject, activePlace>>
    /\ SetView("openExport")

\* onClose={() => setShowExportModal(false)} of the dashboard
CloseExport ==
    /\ showExportModal
    /\ showExportModal' = FALSE
    /\ UNCHANGED <<activeProject, selectedProject, activePlace>>
    /\ SetView("closeExport")

\* handleDownloadCSV of the open dashboard: the rows are built from a sorted
\* copy of its projects prop and handed to the browser
HandleDownloadCSV ==
    /\ showExportModal
    /\ Len(ExportRows(projects, searchState)) >= 0
    /\ UNCHANGED viewVars
    /\ SetView("handleDownloadCSV")

\* the sort key the model picks in the runs with a selection
SortKeysTried == {"priceDesc"}

\* the panel has fetched, or failed to: in the runs with a selection the user
\* acts between two fetches
Idle == Flushed /\ Len(effects) = 1 /\ effects[1].pc = "done"

NextSelect ==
    \/ Idle /\ HandleFileUpload
    \/ Idle /\ showUploadModal /\ Len(file.data) > 4 /\ EditFile
    \/ Idle /\ OpenUploadModal
    \/ Idle /\ \E key \in SortKeysTried : SetSortBy(key)
    \/ Idle /\ \E parts \in SearchQueries : HandleSearchAction(parts)
    \/ Idle /\ \E project \in Range(Visible(projects, searchState)) :
                   HandleProjectSelect(project)
    \/ Idle /\ \E place \in ListedPlaces : HandlePlaceSelect(place)
    \/ Idle /\ CloseDetailPanel
    \/ Idle /\ OpenExport
    \/ Idle /\ CloseExport
    \/ Idle /\ HandleDownloadCSV
    \/ RunEffect
    \/ Flushed /\ \E i \in DOMAIN effects : TimerFires(i)
    \/ Flushed /\ \E i \in DOMAIN effects : FetchSettles(i, "ok")
    \/ Flushed /\ \E i \in DOMAIN effects : JsonSettles(i, TRUE)

\* the city sheet of five rows imported, projects and places selected, the
\* dashboard opened and exported, the sheet imported again without its first row
SpecSelect == Started({f \in CityFiles : Len(f.data) = 5}) /\ [][NextSelect]_vars

-----------------------------------------------------------------------------
(* Properties of the import *)

\* projects is what parseCSV made of the rows now in file
Imported == lastOp = "handleFileUpload"

\* the positions of the rows of file that resolve to id
RowsWithId(id) == {k \in DOMAIN file.data : RowId(file.data[k]) = id}

\* the ids rows of file resolve to
IdsInFile == {RowId(file.data[k]) : k \in DOMAIN file.data} \ {<< >>}

\* the first row of the group of id
FirstRowOf(id) ==
    file.data[CHOOSE k \in RowsWithId(id) : \A m \in RowsWithId(id) : k <= m]

\* the cell does not give a non-zero number
Unusable(cell) == cell = << >> \/ ~ParseFloat(cell, 4).ok \/ ParseFloat(cell, 4).val = 0

BadFirstRow(id) ==
    \/ Unusable(GetValue(FirstRowOf(id), LatKeys))
    \/ Unusable(GetValue(FirstRowOf(id), LngKeys))

\* C3: after an import no two projects share a projectId, every project's id
\* is the non-empty ID of some row and it has as many subunits as there are
\* rows with that ID, so that rows without an ID are in no project; every ID
\* whose group is kept (its first row has usable coordinates) has its project.
C3_OneProjectPerId ==
    Imported =>
        /\ \A i, j \in DOMAIN projects :
              projects[i].projectId = projects[j].projectId => i = j
        /\ \A i \in DOMAIN projects :
              /\ projects[i].projectId \in IdsInFile
              /\ Len(projects[i].subUnits)
                    = Cardinality(RowsWithId(projects[i].projectId))
        /\ \A id \in IdsInFile :
              ~BadFirstRow(id) => \E i \in DOMAIN projects : projects[i].projectId = id

\* an import of a sheet with a row without ID among the rows of a project
\* of two subunits
C3_Witness ==
    /\ Imported
    /\ \E k \in DOMAIN file.data : RowId(file.data[k]) = << >>
    /\ \E i \in DOMAIN projects : Len(projects[i].subUnits) = 2

\* the positive prices of a project's subunits
PositivePrices(p) ==
    SelectSeq([j \in DOMAIN p.subUnits |-> p.subUnits[j].price], LAMBDA x : x > 0)

\* a price as the range shows it: in MB, two decimals
Shown(price) == IF price < 100000 THEN ToFixed(price, 100, 2)
                ELSE ToFixed(price, 100000000, 2)

\* the rollups of p are those of its subunits, but for the price range
RollupsOfSubUnits(p) ==
    /\ p.totalUnits = SumSeq([j \in DOMAIN p.subUnits |-> p.subUnits[j].totalUnits])
    /\ p.soldUnits = SumSeq([j \in DOMAIN p.subUnits |-> p.subUnits[j].soldUnits])
    /\ p.percentSold = IF p.totalUnits = 0 THEN <<"0", ".", "0">>
                       ELSE ToFixed(p.soldUnits * 100, p.totalUnits, 1)

\* the price range of p names the least and the greatest positive price
RangeSpansPrices(p) ==
    LET prices == PositivePrices(p)
    IN  IF Len(prices) = 0 THEN p.priceRange = <<"N", "/", "A">>
        ELSE LET lo == Shown(MinOf(prices))
                 hi == Shown(MaxOf(prices))
                 n  == Len(p.priceRange)
             IN  /\ SubSeq(p.priceRange, 1, Len(lo)) = lo
                 /\ SubSeq(p.priceRange, n - 2, n) = <<" ", "M", "B">>
                 /\ (MinOf(prices) # MaxOf(prices) =>
                        SubSeq(p.priceRange, n - 2 - Len(hi), n - 3) = hi)

\* the sheet of the two 'P1' rows (100 / 40 / 2500000 and 50 / 50 / 5000000)
P1Sheet == {[k \in 1..2 |-> RawRow(l, <<RowP1Condo, RowP1Town>>[k])] : l \in Layouts}

\* the sheet of the two 'P1' rows has been imported, its ID column found
P1Imported == Imported /\ file.data \in P1Sheet /\ IdsInFile # {}

\* the project the two 'P1' rows make, with the price range r
P1Result(r) ==
    /\ Len(projects) = 1
    /\ projects[1].projectId = P1
    /\ projects[1].totalUnits = 150
    /\ projects[1].soldUnits = 90
    /\ projects[1].percentSold = <<"6", "0", ".", "0">>
    /\ Len(projects[1].subUnits) = 2
    /\ projects[1].priceRange = r

\* C4 (as the code has it): every project's totalUnits and soldUnits are the
\* sums over its subunits, percentSold is soldUnits / totalUnits * 100 to one
\* decimal ("0.0" of no units), priceRange runs from the least to the greatest
\* positive subunit price; the two 'P1' rows give one project with
\* totalUnits 150, soldUnits 90, percentSold "60.0", two subunits and
\* priceRange "2.50 - 5.00 MB".
C4_Rollups ==
    /\ \A i \in DOMAIN projects :
          RollupsOfSubUnits(projects[i]) /\ RangeSpansPrices(projects[i])
    /\ P1Imported =>
          P1Result(<<"2", ".", "5", "0", " ", "-", " ",
                     "5", ".", "0", "0", " ", "M", "B">>)

\* C4 as the specification words it: priceRange "2.50 MB - 5.00 MB"
C4_AsStated ==
    /\ \A i \in DOMAIN projects :
          RollupsOfSubUnits(projects[i]) /\ RangeSpansPrices(projects[i])
    /\ P1Imported =>
          P1Result(<<"2", ".", "5", "0", " ", "M", "B", " ", "-", " ",
                     "5", ".", "0", "0", " ", "M", "B">>)

C4_Witness == P1Imported /\ Len(projects) = 1

\* C5 as the specification words it: of every project and every subunit,
\* soldUnits <= totalUnits, percentSold is within [0, 100], and percentSold
\* is 0 when totalUnits is 0.  (Subunit percentSold is in 1/100 %, the
\* project's string is read in 1/10 %.)
C5_AsStated ==
    \A i \in DOMAIN projects :
        LET p == projects[i]
            percent == ParseFloat(p.percentSold, 1)
        IN  /\ p.soldUnits <= p.totalUnits
            /\ percent.ok /\ percent.val >= 0 /\ percent.val <= 1000
            /\ (p.totalUnits = 0 => percent.val = 0)
            /\ \A j \in DOMAIN p.subUnits :
                  /\ p.subUnits[j].soldUnits <= p.subUnits[j].totalUnits
                  /\ p.subUnits[j].percentSold >= 0
                  /\ p.subUnits[j].percentSold <= 10000
                  /\ (p.subUnits[j].totalUnits = 0 => p.subUnits[j].percentSold = 0)

\* the part of C5 the code keeps: percentSold is 0 of a project or a subunit
\* of no units, and never negative for the counts of the sheets
C5_ZeroOfNoUnits ==
    \A i \in DOMAIN projects :
        /\ (projects[i].totalUnits = 0 => projects[i].percentSold = <<"0", ".", "0">>)
        /\ \A j \in DOMAIN projects[i].subUnits :
              projects[i].subUnits[j].totalUnits = 0
                 => projects[i].subUnits[j].percentSold = 0

\* an imported row of 10 units with 20 sold
C5_Oversold ==
    /\ Imported
    /\ \E i \in DOMAIN projects : \E j \in DOMAIN projects[i].subUnits :
          /\ projects[i].subUnits[j].totalUnits = 10
          /\ projects[i].subUnits[j].soldUnits = 20
          /\ projects[i].subUnits[j].percentSold = 20000

\* C6: every project of the list has a non-empty projectId and a latitude
\* and a longitude that are numbers other than 0; after an import, an ID
\* whose first row has a latitude or longitude that is missing, does not
\* parse or is 0 has no project, whatever its other rows hold.
C6_ValidCoordinates ==
    /\ \A i \in DOMAIN projects :
          /\ projects[i].projectId # << >>
          /\ projects[i].lat # 0
          /\ projects[i].lng # 0
    /\ Imported =>
          \A id \in IdsInFile :
              BadFirstRow(id) => \A i \in DOMAIN projects : projects[i].projectId # id

\* an import that drops a group of two rows for its first row's latitude 0
\* (the second row has usable coordinates) and keeps another group
C6_Witness ==
    /\ Imported
    /\ Len(projects) >= 1
    /\ \E id \in IdsInFile :
          /\ BadFirstRow(id)
          /\ \E k \in RowsWithId(id) :
                /\ ~Unusable(GetValue(file.data[k], LatKeys))
                /\ ~Unusable(GetValue(file.data[k], LngKeys))

\* f is a later history entry than e: (12M) before unmarked, then the
\* greater year, then the greater half
LaterEntry(f, e) ==
    LET a == ParseKey(f.key)
        b == ParseKey(e.key)
    IN  \/ a.is12m /\ ~b.is12m
        \/ /\ a.is12m = b.is12m
           /\ \/ a.year > b.year
              \/ a.year = b.year /\ a.half > b.half

\* the row the j-th subunit of the project of id was made from
RowOfSubUnit(id, j) == SelectSeq(file.data, LAMBDA row : RowId(row) = id)[j]

\* the canonical 6-month speed of a row
CanonicalSpeed6m(r) == OrZero(ParseFloat(GetValue(r, Speed6mKeys), 2))

\* the history {"H1.67": 1.2, "H2.67": 0.9}
ExampleHistory == <<[key |-> "H1.67", val |-> 120], [key |-> "H2.67", val |-> 90]>>

\* C7: after an import, the 6-month speed of a subunit whose row has
\* canonical speed 0 and a non-empty history is the value of a history entry
\* no other entry is later than; of any other subunit it is the canonical
\* speed.  A row of speed 0 with the history {"H1.67": 1.2, "H2.67": 0.9}
\* gets "0.90".
C7_Speed6mBackfill ==
    Imported =>
        \A i \in DOMAIN projects : \A j \in DOMAIN projects[i].subUnits :
            LET r  == RowOfSubUnit(projects[i].projectId, j)
                h  == History(r)
                s6 == projects[i].subUnits[j].saleSpeed6m
            IN  /\ (CanonicalSpeed6m(r) = 0 /\ Len(h) > 0) =>
                      \E e \in Range(h) :
                          /\ \A f \in Range(h) : ~LaterEntry(f, e)
                          /\ s6 = ToFixed(e.val, 100, 2)
                /\ (CanonicalSpeed6m(r) = 0 /\ h = ExampleHistory) =>
                      s6 = <<"0", ".", "9", "0">>
                /\ ~(CanonicalSpeed6m(r) = 0 /\ Len(h) > 0) =>
                      s6 = ToFixed(CanonicalSpeed6m(r), 100, 2)

\* one import with the three cases: the example history backfilled, a
\* (12M) entry taken before a later unmarked one, and a non-zero canonical
\* speed kept next to a history
C7_Witness ==
    /\ Imported
    /\ \E i \in DOMAIN projects :
          LET Row(j) == RowOfSubUnit(projects[i].projectId, j)
              subs == DOMAIN projects[i].subUnits
          IN  /\ \E j \in subs : /\ CanonicalSpeed6m(Row(j)) = 0
                                 /\ History(Row(j)) = ExampleHistory
              /\ \E j \in subs : /\ CanonicalSpeed6m(Row(j)) = 0
                                 /\ \E e, f \in Range(History(Row(j))) :
                                       /\ ParseKey(e.key).is12m
                                       /\ ~ParseKey(f.key).is12m
                                       /\ ParseKey(f.key).year > ParseKey(e.key).year
              /\ \E j \in subs : /\ CanonicalSpeed6m(Row(j)) # 0
                                 /\ Len(History(Row(j))) > 0

-----------------------------------------------------------------------------
(* Properties of the filter pipeline, the sort and the dashboard *)

\* what the results panel shows in the current state
Output == Visible(projects, searchState)

\* the distance from the search centre, in 1/100 km
FromCentre(p) ==
    CalculateDistance(searchState.lat, searchState.lng, p.lat, p.lng)

InOutput(p) == \E q \in Range(Output) : q.projectId = p.projectId

\* C1: in location mode every project of the output is within the radius of
\* the centre; in code mode the output is the same under every radius the
\* buttons offer.
C1_RadiusOnlyInLocationMode ==
    /\ searchState.searchMode = "location" =>
          \A p \in Range(Output) : FromCentre(p) <= searchState.radius * 100
    /\ searchState.searchMode = "code" =>
          \A r \in RadiusButtons :
              Visible(projects, [searchState EXCEPT !.radius = r]) = Output

\* code mode showing a project farther from the centre than the radius
C1_Witness ==
    /\ searchState.searchMode = "code"
    /\ \E p \in Range(Output) : FromCentre(p) > searchState.radius * 100

\* p passes the filters other than the radius and the code selection
PassesOtherFilters(p) ==
    LET ss == searchState
        minVal == ParseFloat(ss.minLaunchDate, 2)
    IN  /\ Len(ss.typeFilter) > 0 => MatchesType(p, ss)
        /\ (ss.minPrice.ok \/ ss.maxPrice.ok) => MatchesPriceBand(p, ss)
        /\ (ss.minLaunchDate # << >> /\ minVal.ok) => MatchesLaunchDate(p, minVal.val)
        /\ ss.maxSoldPercent < 100 => MatchesSoldPercent(p, ss)
        /\ ss.priceSegment # "" => MatchesPriceSegment(p, ss)

\* C2: in code mode with a non-empty code selection, a project that passes
\* the other active filters is in the output if and only if its code is
\* selected, whatever its distance.
C2_CodeSelectionDecides ==
    (searchState.searchMode = "code" /\ Len(searchState.codeFilter) > 0) =>
        \A i \in DOMAIN projects :
            PassesOtherFilters(projects[i]) =>
                (InOutput(projects[i])
                    <=> projects[i].code \in Range(searchState.codeFilter))

\* the example: codeFilter ['A1'], radius 1, an 'A1' project 50 km away
\* shown and a 'B2' project 0.1 km away not shown
C2_Witness ==
    /\ searchState.searchMode = "code"
    /\ searchState.codeFilter = <<A1>>
    /\ searchState.radius = 1
    /\ \E i \in DOMAIN projects :
          /\ projects[i].code = A1
          /\ FromCentre(projects[i]) >= 5000
          /\ InOutput(projects[i])
    /\ \E i \in DOMAIN projects :
          /\ projects[i].code = B2
          /\ FromCentre(projects[i]) <= 10
          /\ PassesOtherFilters(projects[i])
          /\ ~InOutput(projects[i])

\* C8: the pipeline applied to its own output, under the same search state,
\* gives the same set of projects.
C8_Idempotent == Range(Visible(Output, searchState)) = Range(Output)

\* a state in which the radius, the type filter and the code selection
\* have each removed a project and the output is not empty
C8_Witness ==
    /\ searchState.searchMode = "location"
    /\ Len(searchState.typeFilter) > 0
    /\ Len(searchState.codeFilter) > 0
    /\ Len(Output) >= 1
    /\ \E i \in DOMAIN projects : FromCentre(projects[i]) > searchState.radius * 100
    /\ \E i \in DOMAIN projects :
          /\ FromCentre(projects[i]) <= searchState.radius * 100
          /\ ~MatchesType(projects[i], searchState)
    /\ \E i \in DOMAIN projects :
          /\ FromCentre(projects[i]) <= searchState.radius * 100
          /\ MatchesType(projects[i], searchState)
          /\ projects[i].code \notin Range(searchState.codeFilter)

\* the list before the sort
Unsorted == CodeFiltered(ProjectsInView(projects, searchState), searchState)

Occurrences(s, x) == Cardinality({k \in DOMAIN s : s[k] = x})

\* the earliest launch token of a project, '' without one
EarliestLaunch(p) ==
    LET ds == {p.subUnits[j].launchDate : j \in DOMAIN p.subUnits} \ {<< >>, <<"-">>}
    IN  IF ds = {} THEN << >> ELSE CHOOSE d \in ds : \A e \in ds : ~StrLess(e, d)

\* the least positive subunit price of a project, 0 without one
LeastPrice(p) ==
    LET ps == {p.subUnits[j].price : j \in DOMAIN p.subUnits} \cap {x \in Int : x > 0}
    IN  IF ps = {} THEN 0 ELSE CHOOSE x \in ps : \A y \in ps : x <= y

\* a may stand right before b under the sort key
InOrder(key, a, b) ==
    CASE key = "distance" -> a.distance <= b.distance
      [] key = "percentSold" ->
            ParseFloat(a.percentSold, 1).val >= ParseFloat(b.percentSold, 1).val
      [] key = "speed6m" ->
            ParseFloat(a.saleSpeed6m, 2).val >= ParseFloat(b.saleSpeed6m, 2).val
      [] key = "speed" ->
            ParseFloat(a.saleSpeed, 2).val >= ParseFloat(b.saleSpeed, 2).val
      [] key = "unitLeft" ->
            a.totalUnits - a.soldUnits >= b.totalUnits - b.soldUnits
      [] key = "launchDate" -> ~StrLess(EarliestLaunch(a), EarliestLaunch(b))
      [] key = "priceAsc" ->
            /\ LeastPrice(a) = 0 => LeastPrice(b) = 0
            /\ (LeastPrice(a) > 0 /\ LeastPrice(b) > 0) => LeastPrice(a) <= LeastPrice(b)
      [] key = "priceDesc" ->
            /\ LeastPrice(a) = 0 => LeastPrice(b) = 0
            /\ (LeastPrice(a) > 0 /\ LeastPrice(b) > 0) => LeastPrice(a) >= LeastPrice(b)

\* C9: under each of the eight sort keys the output is a permutation of the
\* filtered list, and each element may stand before the next under the key:
\* distance ascending; percentSold, speed6m, speed, units left descending;
\* earliest launch token descending as a string; least positive price
\* ascending or descending with the unpriced projects last.
C9_SortedPermutation ==
    /\ searchState.sortBy \in SortKeys
    /\ Len(Output) = Len(Unsorted)
    /\ \A x \in Range(Unsorted) \cup Range(Output) :
          Occurrences(Output, x) = Occurrences(Unsorted, x)
    /\ \A k \in 1..(Len(Output) - 1) :
          InOrder(searchState.sortBy, Output[k], Output[k + 1])

\* a sort by price that moved projects, one of them unpriced
C9_Witness ==
    /\ searchState.sortBy = "priceAsc"
    /\ Len(Output) >= 3
    /\ Output # Unsorted
    /\ \E p \in Range(Output) : LeastPrice(p) = 0
    /\ \E p \in Range(Output) : LeastPrice(p) > 0

\* p has a subunit the histogram weighs: of an active type (any type
\* without a restriction), priced, with units
HasWeighedSubUnit(p, activeTypes) ==
    \E j \in DOMAIN p.subUnits :
        /\ Len(activeTypes) = 0 \/ p.subUnits[j].type \in Range(activeTypes)
        /\ p.subUnits[j].price > 0
        /\ p.subUnits[j].totalUnits > 0

HasPricedSubUnit(p) == \E j \in DOMAIN p.subUnits : p.subUnits[j].price > 0

\* the histogram counts every project 0 or 1 times
CountedAtMostOnce ==
    \A p \in Range(Output) :
        SumSeq(PriceCounts(<<p>>, searchState.typeFilter)) \in {0, 1}

\* C10 (as the code has it): the eight counts of the histogram of a
\* non-empty output sum to the number of its projects that have a subunit of
\* an active type with price > 0 and totalUnits > 0; such a project is
\* counted in exactly one bucket and any other project in none.
C10_HistogramCountsWeighed ==
    Len(Output) > 0 =>
        /\ SumSeq(DashboardPriceCounts(projects, searchState))
              = Cardinality({k \in DOMAIN Output :
                                HasWeighedSubUnit(Output[k], searchState.typeFilter)})
        /\ \A p \in Range(Output) :
              SumSeq(PriceCounts(<<p>>, searchState.typeFilter))
                 = IF HasWeighedSubUnit(p, searchState.typeFilter) THEN 1 ELSE 0

\* C10 as the specification words it: the counts sum to the number of
\* projects of the output with a subunit of price > 0
C10_AsStated ==
    Len(Output) > 0 =>
        /\ SumSeq(DashboardPriceCounts(projects, searchState))
              = Cardinality({k \in DOMAIN Output : HasPricedSubUnit(Output[k])})
        /\ CountedAtMostOnce

\* a type restriction under which the output holds a project that is
\* counted, and a project with a priced subunit that is not
C10_Witness ==
    /\ Len(searchState.typeFilter) > 0
    /\ \E p \in Range(Output) : HasWeighedSubUnit(p, searchState.typeFilter)
    /\ \E p \in Range(Output) :
          HasPricedSubUnit(p) /\ ~HasWeighedSubUnit(p, searchState.typeFilter)

-----------------------------------------------------------------------------
(* Properties of the dashboard's type distribution and of the export *)

\* the types found in the output
OutputTypes ==
    UNION {{Output[k].subUnits[j].type : j \in DOMAIN Output[k].subUnits} :
              k \in DOMAIN Output}

\* the projects of the output that hold a subunit of type t
ProjectsOfType(t) ==
    {k \in DOMAIN Output :
        \E j \in DOMAIN Output[k].subUnits : Output[k].subUnits[j].type = t}

\* the pie of the dashboard
Pie == PieChartData(TypeCounts(Output))

\* C11: in the type distribution of a non-empty output every type found has
\* one entry whose count is the number of projects holding a subunit of the
\* type; the pie has at most 5 slices of types, none with a smaller count than
\* a type left out, and after them at most one 'Others' slice with the rest;
\* the slice counts sum to the total type count, the percentages sum to 1,
\* and the slices run from 0 to 1, each starting where the one before ends.
C11_TypeDistribution ==
    Len(Output) > 0 =>
        LET typeCounts == TypeCounts(Output)
            total == SumSeq([i \in 1..Len(typeCounts) |->
                               Cardinality(ProjectsOfType(typeCounts[i].type))])
            pie == Pie
            slices == PieSlices(Pie)
            top == IF Len(typeCounts) < 5 THEN Len(typeCounts) ELSE 5
        IN  /\ {typeCounts[i].type : i \in DOMAIN typeCounts} = OutputTypes
            /\ Len(typeCounts) = Cardinality(OutputTypes)
            /\ \A i \in DOMAIN typeCounts :
                  typeCounts[i].count = Cardinality(ProjectsOfType(typeCounts[i].type))
            /\ Len(pie) = IF Len(typeCounts) > 5 THEN 6 ELSE Len(typeCounts)
            /\ \A i \in 1..top :
                  /\ pie[i].label \in OutputTypes
                  /\ pie[i].count = Cardinality(ProjectsOfType(pie[i].label))
                  /\ \A j \in 1..top : i # j => pie[i].label # pie[j].label
                  /\ \A t \in OutputTypes \ {pie[j].label : j \in 1..top} :
                        Cardinality(ProjectsOfType(t)) <= pie[i].count
            /\ Len(pie) = 6 =>
                  /\ pie[6].label = Others
                  /\ pie[6].count = total - SumSeq([i \in 1..5 |-> pie[i].count])
            /\ SumSeq([i \in DOMAIN pie |-> pie[i].count]) = total
            /\ \A i \in DOMAIN pie :
                  pie[i].percent = [num |-> pie[i].count, den |-> total]
            /\ SumSeq([i \in DOMAIN pie |-> pie[i].percent.num]) = total
            /\ slices[1].start.num = 0
            /\ slices[Len(slices)].end.num = slices[Len(slices)].end.den
            /\ \A i \in DOMAIN slices :
                  /\ slices[i].end.den = total /\ slices[i].start.den = total
                  /\ slices[i].end.num = slices[i].start.num + pie[i].percent.num
                  /\ i > 1 => slices[i].start = slices[i - 1].end

\* an output with more than 5 types, 'Others' holding two of them, and a
\* project with two subunits of one type
C11_Witness ==
    /\ Len(Output) > 0
    /\ Len(Pie) = 6
    /\ Pie[6].label = Others /\ Pie[6].count = 2
    /\ \E p \in Range(Output) :
          \E i, j \in DOMAIN p.subUnits : i # j /\ p.subUnits[i].type = p.subUnits[j].type

-----------------------------------------------------------------------------
(* Properties of the fetch of nearby places *)

\* the run of the effect that belongs to the current lat, lng and radius
Current == effects[Len(effects)]

\* a continuation of run i of the effect is taken: a request or a body settles
Settles(i) ==
    \/ \E outcome \in FetchOutcomes : FetchSettles(i, outcome)
    \/ \E parsed \in BOOLEAN : JsonSettles(i, parsed)

\* a continuation of run i ends the rotation in failure
Fails(i) ==
    \/ \E outcome \in FetchOutcomes \ {"ok"} : FetchSettles(i, outcome)
    \/ JsonSettles(i, FALSE)

\* the current fetch has gone through the mirrors and obtained nothing
CurrentFailed ==
    /\ Current.pc = "done"
    /\ Current.server = Len(OverpassServers)
    /\ ~(lastFetchRef.ok /\ Deps(lastFetchRef) = Deps(Current))

\* the places a fetch for deps obtains
PlacesFor(deps) ==
    NewPlaces(AllPlacesFlat(Elements(deps.lat, deps.lng, deps.radius),
                            deps.lat, deps.lng))

\* C12 (as stated): a step of a superseded fetch (the cleanup of its run of
\* the effect has set isMounted to false) leaves the displayed places, the
\* places of the map, the error message and the loading flag as they are.
C12_AsStated ==
    [][\A i \in DOMAIN effects :
          (~effects[i].isMounted /\ Settles(i)) =>
              UNCHANGED <<placesData, nearbyPlaces, errorMsg, isLoading>>]_vars

\* C12 (what holds): a step of a superseded fetch leaves the displayed places,
\* the places of the map, the loading flag and the cache key as they are; the
\* error message it leaves alone or sets to the failure text.
C12_SupersededKeepsPlaces ==
    [][\A i \in DOMAIN effects :
          (~effects[i].isMounted /\ Settles(i)) =>
              /\ UNCHANGED <<placesData, nearbyPlaces, isLoading, lastFetchRef>>
              /\ errorMsg' \in {errorMsg, "Failed to load nearby places. High traffic."}]_vars

\* a superseded fetch has ended in failure while the loading flag is up: the
\* message is shown over a fetch that has not ended
C12_Witness ==
    /\ isLoading
    /\ errorMsg # ""
    /\ lastOp \in {"fetchSettles", "jsonSettles"}

\* C13 (as stated): the error message is set only by a fetch that has tried
\* the last of the mirrors, every one having failed.
C13_AsStated ==
    [][\A i \in DOMAIN effects :
          (Fails(i) /\ errorMsg' # errorMsg) =>
              effects[i].server = Len(OverpassServers)]_vars

\* C13 (what holds): a fetch that has not been superseded asks the mirrors in
\* their order from the first, goes on to the next one when a request is
\* rejected or answered outside 2xx or the body does not parse, stops at the
\* first body that parses, and sets the error message only when the last
\* mirror has failed.
C13_CurrentFetchRotates ==
    [][/\ \A i \in DOMAIN effects :
             (TimerFires(i) /\ effects'[Len(effects')].pc = "fetch")
                => effects'[Len(effects')].server = 1
       /\ (Current.isMounted /\ Current.pc \in {"fetch", "json"}
             /\ Settles(Len(effects))) =>
             LET after == effects'[Len(effects')]
             IN  \/ /\ Fails(Len(effects))
                    /\ Current.server < Len(OverpassServers)
                    /\ after.pc = "fetch" /\ after.server = Current.server + 1
                    /\ errorMsg' = errorMsg
                 \/ /\ Fails(Len(effects))
                    /\ Current.server = Len(OverpassServers)
                    /\ after.pc = "done"
                    /\ errorMsg' # ""
                 \/ /\ FetchSettles(Len(effects), "ok")
                    /\ after.pc = "json" /\ after.server = Current.server
                    /\ errorMsg' = errorMsg
                 \/ /\ JsonSettles(Len(effects), TRUE)
                    /\ after.pc = "done"
                    /\ errorMsg' = errorMsg]_vars

\* the current fetch has failed on the last mirror and shows the message
C13_Witness ==
    /\ CurrentFailed
    /\ errorMsg # ""
    /\ ~isLoading

\* C14 (as stated): when the current fetch has failed on every mirror after
\* an earlier fetch had succeeded, the places of that earlier fetch are shown
\* in the panel and on the map.
C14_AsStated ==
    (CurrentFailed /\ lastFetchRef.ok)
    => /\ placesData = PlacesFor(lastFetchRef)
       /\ nearbyPlaces = AllPlacesFlat(
              Elements(lastFetchRef.lat, lastFetchRef.lng, lastFetchRef.radius),
              lastFetchRef.lat, lastFetchRef.lng)

\* C14 (what holds): when the current fetch has failed on every mirror the
\* panel and the map show no places, and the cache key is the one of the
\* earlier fetch.
C14_FailureShowsNothing ==
    CurrentFailed
    => /\ placesData = NoPlaces
       /\ nearbyPlaces = << >>
       /\ errorMsg # ""

\* a fetch has failed on every mirror after an earlier one had obtained places
C14_Witness ==
    /\ CurrentFailed
    /\ lastFetchRef.ok
    /\ PlacesFor(lastFetchRef) # NoPlaces

-----------------------------------------------------------------------------
(* Properties of a failed import *)

\* C15: an import under way (loading is true) ends with loading false; when
\* it ends because parseCSV rejects, the project list, the file name and the
\* search state are those from before the import; the project list and the
\* file name change in no step but the one in which parseCSV resolves.
C15_FailedImportKeepsData ==
    [][/\ loading => ~loading'
       /\ (loading /\ lastOp' # "handleFileUpload") =>
             UNCHANGED <<projects, fileName, searchState>>
       /\ (projects' # projects \/ fileName' # fileName) =>
             (loading /\ lastOp' = "handleFileUpload"
                /\ projects' = ParseCSV(file.data))]_vars

\* an import has failed after an earlier one had loaded projects, and the
\* search state is no longer the initial one
C15_Witness ==
    /\ lastOp = "parseRejects"
    /\ ~loading
    /\ Len(projects) > 0
    /\ fileName # ""
    /\ searchState.searchMode = "code"

-----------------------------------------------------------------------------
(* Properties of the CSV export *)

\* the projects of the export rows, by rank
Exported == ExportRows(projects, searchState)

\* the export rows had the list been sorted on screen by key
ExportedUnder(key) == ExportRows(projects, [searchState EXCEPT !.sortBy = key])

\* the speed the export ranks p by
RankSpeed(p) == ExportSpeed(p, searchState.typeFilter)

\* the place of project p in the on-screen list
PlaceOnScreen(p) == CHOOSE k \in DOMAIN Output : Output[k].projectId = p.projectId

\* the rows are the projects of the output, by descending speed
RankedBySpeed ==
    /\ Len(Exported) = Len(Output)
    /\ \A p \in Range(Output) : Occurrences(Exported, p) = 1
    /\ \A i \in 1..(Len(Exported) - 1) : RankSpeed(Exported[i]) >= RankSpeed(Exported[i + 1])

\* C16 (as stated): the rows are in descending order of latest-period speed,
\* and they are in the same order whichever key the list is sorted by on screen.
C16_AsStated ==
    /\ RankedBySpeed
    /\ \A key \in SortKeys :
          [i \in DOMAIN ExportedUnder(key) |-> ExportedUnder(key)[i].projectId]
             = [i \in DOMAIN Exported |-> Exported[i].projectId]

\* C16 (as the code has it): the rows are the projects of the output in
\* descending order of latest-period speed, projects of equal speed in their
\* on-screen order; so exports under two sort keys rank the same speeds at
\* the same places and order alike any two projects of different speeds.
C16_RankedBySpeedThenScreen ==
    /\ RankedBySpeed
    /\ \A i, j \in DOMAIN Exported :
          (i < j /\ RankSpeed(Exported[i]) = RankSpeed(Exported[j]))
             => PlaceOnScreen(Exported[i]) < PlaceOnScreen(Exported[j])
    /\ \A key \in SortKeys :
          /\ [i \in DOMAIN ExportedUnder(key) |-> RankSpeed(ExportedUnder(key)[i])]
                = [i \in DOMAIN Exported |-> RankSpeed(Exported[i])]
          /\ \A i \in DOMAIN Exported :
                ExportedUnder(key)[i].projectId # Exported[i].projectId
                   => \E j \in DOMAIN Exported \ {i} :
                         RankSpeed(Exported[j]) = RankSpeed(Exported[i])

\* an export of projects of two different speeds and of two with none, in an
\* order that is neither the on-screen one nor the one exported under the
\* distance sort
C16_Witness ==
    /\ Len(Exported) >= 4
    /\ \E p, q \in Range(Exported) :
          RankSpeed(p) > RankSpeed(q) /\ RankSpeed(q) > 0
    /\ \E p, q \in Range(Exported) :
          p.projectId # q.projectId /\ RankSpeed(p) = 0 /\ RankSpeed(q) = 0
    /\ [i \in DOMAIN Exported |-> Exported[i].projectId]
          # [i \in DOMAIN Output |-> Output[i].projectId]
    /\ [i \in DOMAIN Exported |-> Exported[i].projectId]
          # [i \in DOMAIN Exported |-> ExportedUnder("distance")[i].projectId]

-----------------------------------------------------------------------------
(* Properties of the price band and of the price segment *)

\* the positive subunit prices of p
PricesOf(p) == {p.subUnits[i].price : i \in DOMAIN p.subUnits} \ {0}

\* the greatest positive subunit price of a project that has one
GreatestPrice(p) == CHOOSE x \in PricesOf(p) : \A y \in PricesOf(p) : x >= y

\* the list with no price band set
WithoutPriceBand ==
    Visible(projects, [searchState EXCEPT !.minPrice = Null, !.maxPrice = Null])

\* the range of the priced subunits of p overlaps the band of ss
OverlapsBand(p, ss) ==
    /\ PricesOf(p) # {}
    /\ ~ss.minPrice.ok \/ GreatestPrice(p) >= ss.minPrice.val
    /\ ~ss.maxPrice.ok \/ LeastPrice(p) <= ss.maxPrice.val

\* C17: with a price bound set, the projects kept are those with a subunit of
\* price > 0 whose range of such prices overlaps the band, an unset bound being
\* open; with neither bound set every project is kept.
C17_PriceBand ==
    /\ \A p \in Range(WithoutPriceBand) :
          p \in Range(Output) <=>
             \/ ~searchState.minPrice.ok /\ ~searchState.maxPrice.ok
             \/ OverlapsBand(p, searchState)
    /\ Range(Output) \subseteq Range(WithoutPriceBand)

\* both bounds are set; one project is kept whose least price is under the
\* lower bound, one is dropped for its prices, one for having none
C17_Witness ==
    /\ searchState.minPrice.ok /\ searchState.maxPrice.ok
    /\ \E p \in Range(Output) : LeastPrice(p) < searchState.minPrice.val
    /\ \E p \in Range(WithoutPriceBand) \ Range(Output) : PricesOf(p) # {}
    /\ \E p \in Range(WithoutPriceBand) \ Range(Output) : PricesOf(p) = {}

\* the list with no price segment chosen
WithoutPriceSegment == Visible(projects, [searchState EXCEPT !.priceSegment = ""])

\* price (in 1/100 of the sheet's unit) is under the bound (in 1/100 million),
\* a price of 1000 or more being in single units and a lesser one in millions
UnderMillions(price, bound) ==
    IF price < 100000 THEN price < bound ELSE price < bound * 1000000

\* the range of the priced subunits of p, in millions, overlaps the band
OverlapsSegmentInMillions(p, range) ==
    /\ PricesOf(p) # {}
    /\ range.bounded => UnderMillions(LeastPrice(p), range.max)
    /\ ~UnderMillions(GreatestPrice(p), range.min)

\* the range of the priced subunits of p, in the unit of the sheet, overlaps
\* the band
OverlapsSegmentAsRead(p, range) ==
    /\ PricesOf(p) # {}
    /\ range.bounded => LeastPrice(p) < range.max
    /\ GreatestPrice(p) >= range.min

\* C18 (as stated): with a price segment chosen, the projects kept are those
\* with a subunit of price > 0 whose price range in millions has its least
\* price under the band's max and its greatest at or over the band's min.
C18_AsStated ==
    searchState.priceSegment # "" =>
       \A p \in Range(WithoutPriceSegment) :
          p \in Range(Output) <=>
             OverlapsSegmentInMillions(p, GetSegmentRange(searchState.priceSegment))

\* C18 (as the code has it): the prices are held against the band's bounds as
\* they were read from the sheet, with no conversion to millions.
C18_SegmentOnPricesAsRead ==
    searchState.priceSegment # "" =>
       \A p \in Range(WithoutPriceSegment) :
          p \in Range(Output) <=>
             OverlapsSegmentAsRead(p, GetSegmentRange(searchState.priceSegment))

\* band 2.0-3.0 is chosen and a project whose only price is 2,500,000 is dropped
C18_Witness ==
    /\ searchState.priceSegment = "2.0-3.0"
    /\ \E p \in Range(WithoutPriceSegment) \ Range(Output) :
          PricesOf(p) = {250000000}

-----------------------------------------------------------------------------
(* Properties of the launch-date floor *)

\* a token YY.MM as a year and a month; ok is FALSE for any other token
YearMonth(token) ==
    LET parts == SplitDot(token)
    IN  IF /\ Len(parts) = 2
           /\ parts[1] # << >> /\ Range(parts[1]) \subseteq Digits
           /\ Len(parts[2]) = 2 /\ Range(parts[2]) \subseteq Digits
        THEN [ok |-> TRUE, year |-> DigitsValue(parts[1], 1, Len(parts[1])),
              month |-> DigitsValue(parts[2], 1, 2)]
        ELSE [ok |-> FALSE, year |-> 0, month |-> 0]

\* the month of token is the month of floor or a later one
OnOrAfter(token, floor) ==
    /\ YearMonth(token).ok
    /\ \/ YearMonth(token).year > YearMonth(floor).year
       \/ /\ YearMonth(token).year = YearMonth(floor).year
          /\ YearMonth(token).month >= YearMonth(floor).month

\* the launch tokens of the subunits of p
LaunchTokens(p) == {p.subUnits[i].launchDate : i \in DOMAIN p.subUnits}

\* the list with no launch-date floor
WithoutLaunchFloor == Visible(projects, [searchState EXCEPT !.minLaunchDate = << >>])

\* C19: with a launch-date floor set, the projects kept are those with a
\* subunit whose launch date reads as YY.MM and is on or after the floor; a
\* project with no such date is dropped; with no floor every project is kept.
C19_LaunchFloor ==
    /\ \A p \in Range(WithoutLaunchFloor) :
          p \in Range(Output) <=>
             \/ searchState.minLaunchDate = << >>
             \/ \E token \in LaunchTokens(p) : OnOrAfter(token, searchState.minLaunchDate)
    /\ Range(Output) \subseteq Range(WithoutLaunchFloor)
    /\ searchState.minLaunchDate # << >> => YearMonth(searchState.minLaunchDate).ok

\* a floor is set; a project launched in the month of the floor is kept, one
\* launched earlier is dropped, and one with no date to read is dropped
C19_Witness ==
    /\ searchState.minLaunchDate # << >>
    /\ \E p \in Range(Output) :
          /\ searchState.minLaunchDate \in LaunchTokens(p)
          /\ \A token \in LaunchTokens(p) :
                OnOrAfter(token, searchState.minLaunchDate)
                   => token = searchState.minLaunchDate
    /\ \E p \in Range(WithoutLaunchFloor) \ Range(Output) :
          \E token \in LaunchTokens(p) : YearMonth(token).ok
    /\ \E p \in Range(WithoutLaunchFloor) \ Range(Output) :
          \A token \in LaunchTokens(p) : ~ParseFloat(token, 2).ok

-----------------------------------------------------------------------------
(* Properties of the two sorts by price *)

\* C20: under priceAsc and under priceDesc every project with no positive
\* subunit price comes after every project with one, and the projects with
\* one are in the order of their least positive price, ascending under
\* priceAsc and descending under priceDesc.
C20_UnpricedLast ==
    searchState.sortBy \in {"priceAsc", "priceDesc"} =>
       \A i, j \in DOMAIN Output :
          i < j =>
             /\ PricesOf(Output[i]) = {} => PricesOf(Output[j]) = {}
             /\ (PricesOf(Output[i]) # {} /\ PricesOf(Output[j]) # {}) =>
                   IF searchState.sortBy = "priceAsc"
                   THEN LeastPrice(Output[i]) <= LeastPrice(Output[j])
                   ELSE LeastPrice(Output[i]) >= LeastPrice(Output[j])

\* a descending sort by price of three projects of different least prices,
\* one of them with several prices, and of a project with none
C20_Witness ==
    /\ searchState.sortBy = "priceDesc"
    /\ Cardinality({LeastPrice(p) : p \in Range(Output)} \ {0}) >= 3
    /\ \E p \in Range(Output) : Cardinality(PricesOf(p)) >= 2
    /\ \E p \in Range(Output) : PricesOf(p) = {}
    /\ Output # Unsorted

-----------------------------------------------------------------------------
(* Properties of the latest-period sale speed *)

\* the subunits of p that match the active-type restriction
Qualifying(p) ==
    {i \in DOMAIN p.subUnits :
        \/ Len(searchState.typeFilter) = 0
        \/ p.subUnits[i].type \in Range(searchState.typeFilter)}

\* the period keys found in the histories of those subunits
KeysOf(p) ==
    UNION {{p.subUnits[i].history[j].key : j \in DOMAIN p.subUnits[i].history} :
              i \in Qualifying(p)}

\* no key of p is of a later year, or of the same year and a later half
MostRecent(p, key) ==
    /\ key \in KeysOf(p)
    /\ \A other \in KeysOf(p) :
          \/ PeriodOf(other).year < PeriodOf(key).year
          \/ /\ PeriodOf(other).year = PeriodOf(key).year
             /\ PeriodOf(other).half <= PeriodOf(key).half

\* what subunit i of p has at key: its history value there, 0 without one
ValueAt(p, i, key) ==
    LET h == p.subUnits[i].history
        at == {j \in DOMAIN h : h[j].key = key}
    IN  IF at = {} THEN 0 ELSE h[CHOOSE j \in at : TRUE].val

RECURSIVE SumOver(_, _, _)
SumOver(p, units, key) ==
    IF units = {} THEN 0
    ELSE LET i == CHOOSE u \in units : TRUE
         IN  ValueAt(p, i, key) + SumOver(p, units \ {i}, key)

\* C21: the latest-period sale speed of a project is the sum, over its
\* subunits that match the active-type restriction, of the history value at
\* one most recent key (greatest year, then greatest half) of those subunits'
\* histories, a subunit without that key adding 0; it is shown as '-' when
\* there is no such key or the sum is not positive.
C21_LatestSaleSpeed ==
    \A p \in Range(Output) :
        IF KeysOf(p) = {}
        THEN GetProjectLatestSaleSpeed(p, searchState.typeFilter) = <<"-">>
        ELSE \E key \in KeysOf(p) :
                /\ MostRecent(p, key)
                /\ ExportSpeed(p, searchState.typeFilter)
                      = SumOver(p, Qualifying(p), key)
                /\ GetProjectLatestSaleSpeed(p, searchState.typeFilter) = <<"-">>
                      <=> SumOver(p, Qualifying(p), key) <= 0

\* under a type restriction, a project with a subunit left out by it, whose
\* speed is positive though one of the subunits that count has a history
\* without the most recent key
C21_Witness ==
    /\ Len(searchState.typeFilter) > 0
    /\ \E p \in Range(Output) :
          /\ Qualifying(p) # DOMAIN p.subUnits
          /\ ExportSpeed(p, searchState.typeFilter) > 0
          /\ \E i \in Qualifying(p), key \in KeysOf(p) :
                /\ MostRecent(p, key)
                /\ Len(p.subUnits[i].history) > 0
                /\ \A j \in DOMAIN p.subUnits[i].history :
                      p.subUnits[i].history[j].key # key

-----------------------------------------------------------------------------
(* Properties of the imported list and of the selection *)

\* C22: the imported project list changes only in a successful import, which
\* replaces it by the projects of the file; every other action (a change of
\* centre, mode, filter or sort key, the selection of a project or a place,
\* the opening of the dashboard, the CSV export, a step of the places fetch)
\* leaves the list, its order and the fields of its projects as they were.
C22_OnlyImportChangesProjects ==
    [][projects' # projects =>
          lastOp' = "handleFileUpload" /\ projects' = ParseCSV(file.data)]_vars

\* the CSV was exported from a list sorted by price into another order than
\* the imported one, with a project selected, and the imported list is there
C22_Witness ==
    /\ lastOp = "handleDownloadCSV"
    /\ searchState.sortBy = "priceDesc"
    /\ selectedProject.ok
    /\ projects = ParseCSV(file.data)
    /\ Len(projects) >= 3
    /\ \E i, j \in DOMAIN Output, m, n \in DOMAIN projects :
          /\ i < j /\ m > n
          /\ Output[i].projectId = projects[m].projectId
          /\ Output[j].projectId = projects[n].projectId
    /\ \E i \in DOMAIN Output : Output[i].distance > 0

-----------------------------------------------------------------------------
(* Properties of the debounce of the places fetch *)

\* C23: the only timer that fires is the one of the run of the effect for the
\* current centre and radius, so a request is first issued for that value
\* only; a change that comes while the timer of the change before is pending
\* ends that timer, and no request is issued for the earlier value.
C23_Debounced ==
    [][\A i \in DOMAIN effects :
          TimerFires(i) =>
             /\ i = Len(effects)
             /\ effects[i].isMounted
             /\ Deps(effects[i]) = Deps(searchState)]_vars

\* the centre or the radius has changed while the timer of an earlier change
\* was pending
C23_Witness ==
    /\ lastOp \in {"handleRadiusChange", "handleSearchAction"}
    /\ effects[Len(effects)].pc = "timer"
    /\ Deps(effects[Len(effects)]) # Deps(InitialSearchState)
    /\ Deps(effects[Len(effects)]) # Deps(searchState)

-----------------------------------------------------------------------------
(* Properties of the panel at rest *)

\* the changes have stopped and nothing is pending: the effect has run for
\* the current centre and radius, and every run of it has returned
AtRest == Flushed /\ \A i \in DOMAIN effects : effects[i].pc = "done"

\* lastFetchRef holds the current centre and radius
CacheIsCurrent ==
    /\ lastFetchRef.ok
    /\ lastFetchRef.lat = searchState.lat
    /\ lastFetchRef.lng = searchState.lng
    /\ lastFetchRef.radius = searchState.radius

\* what a fetch for deps hands to the map
MapPlacesFor(deps) ==
    AllPlacesFlat(Elements(deps.lat, deps.lng, deps.radius), deps.lat, deps.lng)

\* the places of a fetch for the current centre and radius are on display
CurrentPlacesShown ==
    /\ nearbyPlaces = MapPlacesFor(Deps(searchState))
    /\ placesData = PlacesFor(Deps(searchState))

\* C24 (as stated): once the changes have stopped and every request has
\* completed, the loading flag of the nearby places is false.
C24_AsStated == AtRest => ~isLoading

\* C24 (as the code has it): at rest the loading flag is false unless the
\* last run of the effect found its values in lastFetchRef and returned.
C24_LoadingEndsUnlessCached == AtRest /\ isLoading => CacheIsCurrent

\* at rest, with the loading flag set
C24_Witness == AtRest /\ isLoading

\* C25 (as stated): with nothing pending or in flight and no error shown, the
\* places displayed are those fetched for the current centre and radius, and
\* so they are whenever lastFetchRef holds the current centre and radius.
C25_AsStated ==
    /\ AtRest /\ errorMsg = "" => CurrentPlacesShown
    /\ AtRest /\ errorMsg = "" /\ CacheIsCurrent => CurrentPlacesShown

\* C25 (as the code has it): at rest with no error shown, the places displayed
\* are those fetched for the current centre and radius, or none at all, and
\* they are none only while the loading flag is set.
C25_PlacesCurrentOrEmptied ==
    AtRest /\ errorMsg = "" =>
       \/ CurrentPlacesShown
       \/ /\ nearbyPlaces = << >>
          /\ placesData = NoPlaces
          /\ isLoading

\* at rest with no error shown, lastFetchRef holds the current centre and
\* radius, a fetch for them would give places, and none is displayed
C25_Witness ==
    /\ AtRest /\ errorMsg = ""
    /\ CacheIsCurrent
    /\ MapPlacesFor(Deps(searchState)) # << >>
    /\ nearbyPlaces = << >>
    /\ placesData = NoPlaces

\* C26: a place and a project are never selected together: whenever
\* activePlace is not null, selectedProject and activeProject are null, under
\* any sequence of project selections, place selections, searches and closes
\* of the detail panel.
C26_PlaceExcludesProject ==
    activePlace.ok => ~selectedProject.ok /\ ~activeProject.ok

\* a place was selected from the list while projects were on display
C26_Witness ==
    /\ activePlace.ok
    /\ lastOp = "handlePlaceSelect"
    /\ Len(Output) > 0

\* project q, a copy with its distance, is one of the imported projects projs
IsImported(q, projs) ==
    \E i \in DOMAIN projs : \A field \in DOMAIN projs[i] : q[field] = projs[i][field]

\* C27 (as stated): the selected project and the active project, when not
\* null, are projects of the imported list.
C27_AsStated ==
    /\ selectedProject.ok => IsImported(selectedProject.val, projects)
    /\ activeProject.ok => IsImported(activeProject.val, projects)

\* C27 (as the code has it): a project is of the imported list when it is
\* selected, and stops being so only by an import, which leaves the selection
\* as it is.
C27_SelectedFromImported ==
    [][/\ (selectedProject'.ok /\ ~IsImported(selectedProject'.val, projects')) =>
             /\ selectedProject' = selectedProject
             /\ lastOp' = "handleFileUpload"
                   \/ ~IsImported(selectedProject.val, projects)
       /\ (activeProject'.ok /\ ~IsImported(activeProject'.val, projects')) =>
             /\ activeProject' = activeProject
             /\ lastOp' = "handleFileUpload"
                   \/ ~IsImported(activeProject.val, projects)]_vars

\* a sheet was imported while a project of the sheet before, which the new
\* one does not hold, was in the detail panel
C27_Witness ==
    /\ lastOp = "handleFileUpload"
    /\ Len(projects) > 0
    /\ selectedProject.ok
    /\ \A i \in DOMAIN projects : projects[i].projectId # selectedProject.val.projectId

-----------------------------------------------------------------------------
(* Properties of handleResetFilters *)

\* the ids of the imported projects within km kilometres of the centre of ss
IdsWithin(km, ss) ==
    {projects[i].projectId : i \in
        {j \in DOMAIN projects :
            CalculateDistance(ss.lat, ss.lng, projects[j].lat, projects[j].lng)
               <= km * 100}}

\* the ids of the list on display
OutputIds == {Output[i].projectId : i \in DOMAIN Output}

\* the seven filter dimensions that handleResetFilters names are at their
\* initial values in ss
NamedFiltersReset(ss) ==
    /\ ss.radius = InitialSearchState.radius
    /\ ss.codeFilter = InitialSearchState.codeFilter
    /\ ss.typeFilter = InitialSearchState.typeFilter
    /\ ss.minPrice = InitialSearchState.minPrice
    /\ ss.maxPrice = InitialSearchState.maxPrice
    /\ ss.minLaunchDate = InitialSearchState.minLaunchDate
    /\ ss.maxSoldPercent = InitialSearchState.maxSoldPercent

\* the centre, the mode and the sort key of ss are those of tt
SameCentreModeSort(ss, tt) ==
    /\ ss.lat = tt.lat /\ ss.lng = tt.lng
    /\ ss.searchMode = tt.searchMode
    /\ ss.sortBy = tt.sortBy

\* C28 (as stated): after handleResetFilters every filter dimension, the
\* price segment among them, has its initial value, and the centre, the mode
\* and the sort key are as before.
C28_AsStated ==
    [][HandleResetFilters =>
          /\ NamedFiltersReset(searchState')
          /\ searchState'.priceSegment = InitialSearchState.priceSegment
          /\ SameCentreModeSort(searchState', searchState)]_vars

\* C28 (as the code has it): after handleResetFilters the seven dimensions it
\* names have their initial values, and the centre, the mode, the sort key and
\* the price segment are as before.
C28_ResetKeepsPriceSegment ==
    [][HandleResetFilters =>
          /\ NamedFiltersReset(searchState')
          /\ searchState'.priceSegment = searchState.priceSegment
          /\ SameCentreModeSort(searchState', searchState)]_vars

\* right after a reset in location mode a price segment is still chosen, and
\* a project within 3 km of the centre is not on display
C28_Witness ==
    /\ lastOp = "handleResetFilters"
    /\ searchState.searchMode = "location"
    /\ searchState.priceSegment # ""
    /\ NamedFiltersReset(searchState)
    /\ OutputIds # IdsWithin(3, searchState)

-----------------------------------------------------------------------------
(* Properties of the histogram against the price segment *)

\* the histogram counts p, and in band k
CountedInBand(p, k) ==
    LET st == GetProjectWeightedPriceStats(p, searchState.typeFilter)
    IN  st.weightedUnitsSum > 0 /\ SegmentIndex(st.avgPrice) = k

\* p is on display with the price segment of band k chosen
KeptByBand(p, k) ==
    p.projectId \in
       {q.projectId :
          q \in Range(Visible(projects,
                              [searchState EXCEPT !.priceSegment = PriceSegments[k].label]))}

\* the list on display with no price segment chosen
Unsegmented == Visible(projects, [searchState EXCEPT !.priceSegment = ""])

\* C29 (as stated): a project that the histogram counts in a band is kept
\* when the price segment of that band is chosen, prices on a band boundary
\* included.
C29_AsStated ==
    \A p \in Range(Unsegmented), k \in DOMAIN PriceSegments :
        CountedInBand(p, k) => KeptByBand(p, k)

\* C29 (as the code has it): a project that the histogram counts in a band is
\* kept by the price segment of that band when its prices are written in
\* millions (under 1000) and its least price is under the upper bound of the
\* band; a project whose only price is the upper bound of its band is dropped.
C29_AgreeOffBoundaryInMillions ==
    \A p \in Range(Unsegmented), k \in DOMAIN PriceSegments :
        CountedInBand(p, k) =>
           /\ (GreatestPrice(p) < 100000
                 /\ (k = Len(PriceSegments) \/ LeastPrice(p) < PriceSegments[k].max))
                 => KeptByBand(p, k)
           /\ (k < Len(PriceSegments) /\ LeastPrice(p) >= PriceSegments[k].max)
                 => ~KeptByBand(p, k)

\* a project whose only price is 3.0 is counted in band 2.0-3.0 and dropped
\* by that price segment, next to a project at 2.5 that is counted and kept
C29_Witness ==
    /\ \E p \in Range(Unsegmented) :
          PricesOf(p) = {300} /\ CountedInBand(p, 4) /\ ~KeptByBand(p, 4)
    /\ \E p \in Range(Unsegmented) :
          PricesOf(p) = {250} /\ CountedInBand(p, 4) /\ KeptByBand(p, 4)

-----------------------------------------------------------------------------
(* Sidebar: the code selection after a mode switch *)

CodesOf(projs) == {projs[i].code : i \in DOMAIN projs} \ {<< >>}

\* the code that no other code of the dataset precedes
FirstCode(projs) ==
    CHOOSE c \in CodesOf(projs) :
        \A d \in CodesOf(projs) : d = c \/ StrLess(c, d)

\* C30: a switch to 'location' leaves codeFilter empty; a switch to 'code'
\* keeps a non-empty selection, turns an empty one into exactly the first
\* code of the dataset in sorted order when the dataset has a code, and so
\* leaves codeFilter non-empty whenever a project is loaded.
C30_ModeSwitchSelection ==
    [][\A mode \in {"location", "code"} :
          HandleModeSwitch(mode) =>
              /\ searchState'.searchMode = mode
              /\ mode = "location" => searchState'.codeFilter = << >>
              /\ mode = "code" /\ searchState.codeFilter # << >>
                    => searchState'.codeFilter = searchState.codeFilter
              /\ mode = "code" /\ searchState.codeFilter = << >>
                               /\ CodesOf(projects) # {}
                    => searchState'.codeFilter = <<FirstCode(projects)>>
              /\ mode = "code" /\ Len(projects) > 0
                    => searchState'.codeFilter # << >>]_vars

\* 'code' mode was entered on a dataset of several codes whose first row does
\* not carry the first code, and that code alone is selected
C30_Witness ==
    /\ lastOp = "handleModeSwitch"
    /\ searchState.searchMode = "code"
    /\ Cardinality(CodesOf(projects)) > 1
    /\ projects[1].code # FirstCode(projects)
    /\ searchState.codeFilter = <<FirstCode(projects)>>

=============================================================================
